---- MODULE Spec2Model ----
(***************************************************************************)
(* State manager of core/state (StateDB): journal and revisions, Finalise, *)
(* IntermediateRoot, Commit, and the block-stm versioned read/write path.  *)
(*                                                                         *)
(* Hashes are modelled by the content they commit to (a collision-free     *)
(* hash): the root of an account trie is the trie's content, the root of a *)
(* storage trie is the slot map.  Objects are held by value.               *)
(***************************************************************************)
EXTENDS Integers, Sequences, FiniteSets, TLC

\* ------------------------------------------------------------------ bounds
MaxBal == 2          \* balances range over 0..MaxBal
MaxNonce == 2        \* nonces range over 0..MaxNonce
MaxVal == 1          \* slot values range over 0..MaxVal (0 is the zero hash)
MaxCode == 1         \* contract codes 1..MaxCode (0 is the empty code)
MaxOps == 3          \* mutating calls per block
MaxJournal == 2      \* journal entries per transaction
MaxRevisions == 2    \* Snapshot() calls per manager
MaxTxs == 2          \* Finalise/IntermediateRoot calls per manager
MaxCommits == 1      \* successful Commit calls per manager
MaxRefund == 2       \* the refund counter ranges over 0..MaxRefund
MaxCopies == 1       \* Copy calls per target manager
MaxModules == 2      \* registered state-update listeners
MaxItems == 3        \* nodes and leaves of a storage trie under deletion
MaxLen == 2          \* an encoded slot value has 1..MaxLen bytes
MaxPath == 1         \* a trie node path has 0..MaxPath bytes
NumBits == 2         \* a block number has NumBits bits (64 in the code)
MaxTracked == 3      \* block numbers with a tracked freezer update
\* storageDeleteLimit (512 MiB) and common.HashLength (32), scaled down to
\* the sizes above: a storage of MaxItems items can exceed the limit, no
\* single slot can
storageDeleteLimit == 3
HashLength == 1
MaxIncarnation == 1  \* execution attempts are numbered 0..MaxIncarnation

Addrs == {"A", "B"}
Slots == {"k"}
Mgrs == {1, 2}
TxIdxs == {0, 1}

\* ------------------------------------------------------------- variables
VARIABLES
  sdb,        \* [Mgrs -> StateDB]: the managers
  mvHashmap,  \* blockstm.MVHashMap shared by the managers
  db,         \* Database: persisted tries, codes, the trie database
  snaps,      \* snapshot.Tree
  ret,        \* what the last call returned (observation of the caller)
  hist        \* history of the run (values the caller saw earlier)

vars == <<sdb, mvHashmap, db, snaps, ret, hist>>

\* ---------------------------------------------------------------- values
None == <<>>
Some(x) == <<x>>
IsSome(o) == o # <<>>
Get(o) == o[1]

NoSlots == [k \in Slots |-> None]

\* types.EmptyRootHash of a storage trie: no slot holds a value
EmptyStorageRoot == [k \in Slots |-> 0]
\* types.EmptyCodeHash
EmptyCodeHash == 0

\* common.Hash as the root of an account trie; the zero hash is not the
\* hash of any trie.
ZeroHash == [zero |-> TRUE, accts |-> [a \in Addrs |-> None]]
EmptyRootHash == [zero |-> FALSE, accts |-> [a \in Addrs |-> None]]
HashTrie(content) == [zero |-> FALSE, accts |-> content]

\* types.NewEmptyStateAccount
NewEmptyStateAccount ==
  [nonce |-> 0, balance |-> 0, codeHash |-> EmptyCodeHash, root |-> EmptyStorageRoot]

\* types.SlimAccountRLP: the slim encoding omits an empty root and an
\* empty code hash
SlimAccountRLP(acct) ==
  [nonce |-> acct.nonce, balance |-> acct.balance,
   root |-> IF acct.root = EmptyStorageRoot THEN None ELSE Some(acct.root),
   codeHash |-> IF acct.codeHash = EmptyCodeHash THEN None ELSE Some(acct.codeHash)]

\* the decoding getDeletedStateObject applies to a snapshot account
FullAccount(slim) ==
  [nonce |-> slim.nonce, balance |-> slim.balance,
   codeHash |-> IF slim.codeHash = None THEN EmptyCodeHash ELSE Get(slim.codeHash),
   root |-> IF slim.root = None THEN EmptyStorageRoot ELSE Get(slim.root)]

\* ------------------------------------------------------------------ keys
BalancePath == 1
NoncePath == 2
CodePath == 3
SuicidePath == 4

NewAddressKey(addr) == [kind |-> "address", addr |-> addr, slot |-> "", sub |-> 0]
NewSubpathKey(addr, sub) == [kind |-> "subpath", addr |-> addr, slot |-> "", sub |-> sub]
NewStateKey(addr, slot) == [kind |-> "state", addr |-> addr, slot |-> slot, sub |-> 0]
IsAddress(k) == k.kind = "address"
IsState(k) == k.kind = "state"

AllKeys ==
  {NewAddressKey(a) : a \in Addrs}
    \cup {NewSubpathKey(a, p) : a \in Addrs, p \in {BalancePath, NoncePath, CodePath, SuicidePath}}
    \cup {NewStateKey(a, k) : a \in Addrs, k \in Slots}

\* ---------------------------------------------------------- state objects
\* db is the manager the object belongs to (stateObject.db)
newObject(m, addr, acct) ==
  [db |-> m,
   address |-> addr,
   data |-> IF acct = None THEN NewEmptyStateAccount ELSE Get(acct),
   origin |-> acct,
   code |-> None,
   dirtyCode |-> FALSE,
   trie |-> None,
   originStorage |-> NoSlots,
   pendingStorage |-> NoSlots,
   dirtyStorage |-> NoSlots,
   selfDestructed |-> FALSE,
   deleted |-> FALSE,
   created |-> (acct = None)]

\* stateObject.empty
empty(obj) ==
  obj.data.nonce = 0 /\ obj.data.balance = 0 /\ obj.data.codeHash = EmptyCodeHash

\* stateObject.deepCopy
deepCopy(obj, m) == [obj EXCEPT !.db = m, !.created = FALSE]

\* ---------------------------------------------------------------- journal
JEntry(kind, addr) ==
  [kind |-> kind, account |-> addr, prev |-> 0, flag |-> FALSE, key |-> "",
   prevObj |-> None, prevcode |-> None, prevAccount |-> None, prevStorage |-> None,
   prevAccountOriginExist |-> FALSE, prevAccountOrigin |-> None,
   prevStorageOrigin |-> None]

\* journalEntry.dirtied: the address an entry dirties, if any
dirtied(e) == IF e.kind = "refundChange" THEN None ELSE Some(e.account)

\* journal.dirties: the addresses dirtied by the entries of the journal
dirties(journal) ==
  {Get(dirtied(journal[i])) : i \in {j \in 1..Len(journal) : IsSome(dirtied(journal[j]))}}

\* --------------------------------------------------------------- managers
NoReads == [k \in AllKeys |-> None]
NoWrites == [k \in AllKeys |-> None]

\* snapshot.Tree.Snapshot(root): the layer of a root, if the tree has one
HasLayer(root) == snaps.on /\ \E l \in snaps.layers : l.root = root
Layer(root) == CHOOSE l \in snaps.layers : l.root = root

\* Database.OpenTrie: the zero hash and the empty root open the empty trie
CanOpenTrie(root) ==
  ~db.faulty /\ (root.accts = EmptyRootHash.accts \/ root \in db.tries)

\* New (with dep left at Go's zero value; NewWithMVHashmap sets it to -1)
New(root) ==
  [trie |-> root.accts,
   originalRoot |-> root,
   snap |-> IF HasLayer(root) THEN "layer" ELSE "plugin",
   snapRoot |-> root,
   accounts |-> [a \in Addrs |-> None],
   storages |-> [a \in Addrs |-> None],
   accountsOrigin |-> [a \in Addrs |-> None],
   storagesOrigin |-> [a \in Addrs |-> None],
   stateObjects |-> [a \in Addrs |-> None],
   stateObjectsPending |-> {},
   stateObjectsDirty |-> {},
   stateObjectsDestruct |-> [a \in Addrs |-> None],
   mvOn |-> FALSE,
   incarnation |-> 0,
   readMap |-> NoReads,
   writeMap |-> NoWrites,
   revertedKeys |-> {},
   dep |-> 0,
   dbErr |-> "",
   refund |-> 0,
   txIndex |-> 0,
   journal |-> <<>>,
   validRevisions |-> <<>>,
   nextRevisionId |-> 0]

NewWithMVHashmap(root) == [New(root) EXCEPT !.mvOn = TRUE, !.dep = -1]

SetMVHashmap(s) == [s EXCEPT !.mvOn = TRUE, !.dep = -1]

\* AddEmptyMVHashMap attaches a map it makes and leaves dep as it is
AddEmptyMVHashMap(s) == [s EXCEPT !.mvOn = TRUE]

\* StateDB.setError remembers the first error
setError(s, err) == IF s.dbErr = "" THEN [s EXCEPT !.dbErr = err] ELSE s

HadInvalidRead(s) == s.dep >= 0
DepTxIndex(s) == s.dep
Version(s) == [TxnIndex |-> s.txIndex, Incarnation |-> s.incarnation]

\* ---------------------------------------------------------------- reads
\* The outcome of a call: the managers after it, the value returned and
\* whether the call panicked (a panic unwinds to the caller of the API).
Out(S, v) == [S |-> S, val |-> v, panic |-> FALSE]
Panic(S) == [S |-> S, val |-> None, panic |-> TRUE]

\* snapshot.Snapshot.Account as the manager's snap answers it
snapAccount(s, addr) ==
  IF s.snap = "layer"
  THEN [err |-> FALSE, acc |-> Layer(s.snapRoot).accounts[addr]]
  ELSE [err |-> TRUE, acc |-> None]

\* snapshot.Snapshot.Storage
snapStorage(s, addr, key) ==
  IF s.snap = "layer"
  THEN [err |-> FALSE, val |-> Layer(s.snapRoot).storage[addr][key]]
  ELSE [err |-> TRUE, val |-> 0]

\* A manager's map holds pointers: an object that belongs to another manager
\* is that manager's object, as that manager holds it now
resolve(S, o) ==
  IF IsSome(S[o.db].stateObjects[o.address]) /\ Get(S[o.db].stateObjects[o.address]).db = o.db
  THEN Get(S[o.db].stateObjects[o.address])
  ELSE o

\* a lookup that answers nil for every account once an error is memoized
readStateObject_absentAfterError(S, m, addr) ==
  LET s == S[m]
      sn == snapAccount(s, addr)
      fromSnap == s.snap # "nil" /\ ~sn.err
  IN IF s.dbErr # "" THEN Out(S, None)
     ELSE IF IsSome(s.stateObjects[addr]) THEN Out(S, Some(resolve(S, Get(s.stateObjects[addr]))))
     ELSE IF fromSnap /\ sn.acc = None THEN Out(S, None)
     ELSE IF ~fromSnap /\ db.faulty
       THEN Out([S EXCEPT ![m] = setError(s, "getDeleteStateObject")], None)
     ELSE LET data == IF fromSnap THEN Some(FullAccount(Get(sn.acc))) ELSE s.trie[addr]
          IN IF data = None THEN Out(S, None)
             ELSE LET obj == newObject(m, addr, data)
                  IN Out([S EXCEPT ![m].stateObjects[addr] = Some(obj)], Some(obj))

\* a lookup that goes from the live objects to the trie
readStateObject_skipsSnapshot(S, m, addr) ==
  LET s == S[m]
      sn == snapAccount(s, addr)
      fromSnap == FALSE /\ ~sn.err
  IN IF IsSome(s.stateObjects[addr]) THEN Out(S, Some(resolve(S, Get(s.stateObjects[addr]))))
     ELSE IF fromSnap /\ sn.acc = None THEN Out(S, None)
     ELSE IF ~fromSnap /\ db.faulty
       THEN Out([S EXCEPT ![m] = setError(s, "getDeleteStateObject")], None)
     ELSE LET data == IF fromSnap THEN Some(FullAccount(Get(sn.acc))) ELSE s.trie[addr]
          IN IF data = None THEN Out(S, None)
             ELSE LET obj == newObject(m, addr, data)
                  IN Out([S EXCEPT ![m].stateObjects[addr] = Some(obj)], Some(obj))

\* the closure of getDeletedStateObject: live objects, then the snapshot,
\* then the trie; a loaded account is inserted into the live set
readStateObject(S, m, addr) ==
  LET s == S[m]
      sn == snapAccount(s, addr)
      fromSnap == s.snap # "nil" /\ ~sn.err
  IN IF IsSome(s.stateObjects[addr]) THEN Out(S, Some(resolve(S, Get(s.stateObjects[addr]))))
     ELSE IF fromSnap /\ sn.acc = None THEN Out(S, None)
     ELSE IF ~fromSnap /\ db.faulty
       THEN Out([S EXCEPT ![m] = setError(s, "getDeleteStateObject")], None)
     ELSE LET data == IF fromSnap THEN Some(FullAccount(Get(sn.acc))) ELSE s.trie[addr]
          IN IF data = None THEN Out(S, None)
             ELSE LET obj == newObject(m, addr, data)
                  IN Out([S EXCEPT ![m].stateObjects[addr] = Some(obj)], Some(obj))

\* MVHashMap.Read: the cell of the highest transaction index below txIdx
MVReadResultDone == "done"
MVReadResultDependency == "dependency"
MVReadResultNone == "none"

MVHashMapRead(k, txIdx) ==
  LET lower == {i \in TxIdxs : i < txIdx /\ IsSome(mvHashmap[k][i])}
  IN IF lower = {} THEN [status |-> MVReadResultNone, depIdx |-> -1, incarnation |-> -1, value |-> 0]
     ELSE LET fk == CHOOSE i \in lower : \A j \in lower : j <= i
              c == Get(mvHashmap[k][fk])
          IN IF c.flag = "estimate"
             THEN [status |-> MVReadResultDependency, depIdx |-> fk, incarnation |-> -1, value |-> c.data]
             ELSE [status |-> MVReadResultDone, depIdx |-> fk, incarnation |-> c.incarnation, value |-> c.data]

\* the tail of MVRead: an existing read descriptor is not overwritten
recordRead(o, m, k, res, kind) ==
  IF o.panic \/ IsSome(o.S[m].readMap[k]) THEN o
  ELSE [o EXCEPT !.S[m].readMap[k] =
          Some([V |-> [TxnIndex |-> res.depIdx, Incarnation |-> res.incarnation],
                Kind |-> kind])]

\* an MVRead that consults the map for a key of its own write set too
mvConsults_ignoresWriteSet(s, k) == s.mvOn

\* MVRead consults the map unless there is none or the key is in the
\* manager's own write set
mvConsults(s, k) == s.mvOn /\ s.writeMap[k] = None

\* the manager MVRead applies readStorage to: the one the cell refers to
\* on a done result, the reader otherwise
readStorageOn(s, m, k, res) ==
  IF mvConsults(s, k) /\ res.status = MVReadResultDone THEN res.value ELSE m

\* MVRead after the map was read, without the recording of a dependency
mvResult_forgetsDep(S, m, k, res, o) ==
  IF ~mvConsults(S[m], k) THEN o
  ELSE CASE res.status = MVReadResultDone -> recordRead(o, m, k, res, "ReadKindMap")
         [] res.status = MVReadResultDependency -> Panic(S)
         [] OTHER -> recordRead(o, m, k, res, "ReadKindStorage")

\* MVRead that aborts when the map holds nothing for the key although a
\* transaction with a lower index exists
mvResult_abortsOnNone(S, m, k, res, o) ==
  IF ~mvConsults(S[m], k) THEN o
  ELSE CASE res.status = MVReadResultDone -> recordRead(o, m, k, res, "ReadKindMap")
         [] res.status = MVReadResultNone /\ S[m].txIndex = 0 ->
              recordRead(o, m, k, res, "ReadKindStorage")
         [] OTHER -> Panic([S EXCEPT ![m].dep = S[m].txIndex - 1])

\* MVRead after the map was read: o is what readStorage gives on the
\* manager readStorageOn names; a dependency panics before it is applied
mvResult(S, m, k, res, o) ==
  IF ~mvConsults(S[m], k) THEN o
  ELSE CASE res.status = MVReadResultDone -> recordRead(o, m, k, res, "ReadKindMap")
         [] res.status = MVReadResultDependency -> Panic([S EXCEPT ![m].dep = res.depIdx])
         [] OTHER -> recordRead(o, m, k, res, "ReadKindStorage")

\* getDeletedStateObject: MVRead of the address key over readStateObject
mvReadObject(S, m, addr, k, res) ==
  mvResult(S, m, k, res, readStateObject(S, readStorageOn(S[m], m, k, res), addr))

getDeletedStateObject(S, m, addr) ==
  mvReadObject(S, m, addr, NewAddressKey(addr),
               MVHashMapRead(NewAddressKey(addr), S[m].txIndex))

\* getStateObject: nil for an object that is absent or deleted
notDeleted(o) ==
  IF o.panic THEN o
  ELSE IF IsSome(o.val) /\ ~Get(o.val).deleted THEN o
  ELSE Out(o.S, None)

getStateObject(S, m, addr) == notDeleted(getDeletedStateObject(S, m, addr))

\* ------------------------------------------------- state object getters
\* the object as its owner holds it now (objects are reached by pointer)
putObject(S, old, new) ==
  IF S[old.db].stateObjects[old.address] = Some(old)
  THEN [S EXCEPT ![old.db].stateObjects[old.address] = Some(new)]
  ELSE S

\* Database.OpenStorageTrie of the object's root (stateObject.getTrie)
canOpenStorageTrie(o) ==
  IsSome(o.trie) \/ (~db.faulty /\ (o.data.root = EmptyStorageRoot \/ o.data.root \in db.storageTries))

\* stateObject.getTrie: the loaded trie, else the one opened at data.Root
getTrie(o) == IF IsSome(o.trie) THEN Get(o.trie) ELSE o.data.root

\* stateObject.Code: the code is loaded from the database by its hash
stateObject_Code(S, o) ==
  IF IsSome(o.code) THEN Out(S, Get(o.code))
  ELSE IF o.data.codeHash = EmptyCodeHash THEN Out(S, 0)
  ELSE IF ~db.faulty /\ o.data.codeHash \in db.codes
    THEN Out(putObject(S, o, [o EXCEPT !.code = Some(o.data.codeHash)]), o.data.codeHash)
  ELSE Out([S EXCEPT ![o.db] = setError(@, "can't load code hash")], 0)

\* stateObject.GetCommittedState: pending, then the clean cache, then
\* nothing for an address destructed in the block, then snapshot, then trie
stateObject_GetCommittedState(S, o, key) ==
  LET s == S[o.db]
      sn == snapStorage(s, o.address, key)
      cache(v) == Out(putObject(S, o, [o EXCEPT !.originStorage[key] = Some(v)]), v)
  IN IF IsSome(o.pendingStorage[key]) THEN Out(S, Get(o.pendingStorage[key]))
     ELSE IF IsSome(o.originStorage[key]) THEN Out(S, Get(o.originStorage[key]))
     ELSE IF IsSome(s.stateObjectsDestruct[o.address]) THEN Out(S, 0)
     ELSE IF s.snap # "nil" /\ ~sn.err THEN cache(sn.val)
     ELSE IF ~canOpenStorageTrie(o)
       THEN Out([S EXCEPT ![o.db] = setError(@, "can't open storage trie")], 0)
     ELSE LET v == getTrie(o)[key]
              o1 == [o EXCEPT !.trie = Some(getTrie(o)), !.originStorage[key] = Some(v)]
          IN Out(putObject(S, o, o1), v)

\* stateObject.GetState: the dirty value of the transaction, else committed
stateObject_GetState(S, o, key) ==
  IF IsSome(o.dirtyStorage[key]) THEN Out(S, Get(o.dirtyStorage[key]))
  ELSE stateObject_GetCommittedState(S, o, key)

\* ------------------------------------------------------- StateDB getters
\* the field a getter's readStorage closure takes from the object
field(S, o, f) ==
  CASE f.name = "Balance" -> Out(S, o.data.balance)
    [] f.name = "Nonce" -> Out(S, o.data.nonce)
    [] f.name = "Code" -> stateObject_Code(S, o)
    [] f.name = "State" -> stateObject_GetState(S, o, f.key)
    [] OTHER -> Out(S, o.selfDestructed)

\* the readStorage closure of the getters: the field of the object
\* getStateObject gives, or the default when it gives nil
fieldOr(g, defaultV, f) ==
  IF g.panic THEN g
  ELSE IF IsSome(g.val) THEN field(g.S, Get(g.val), f)
  ELSE Out(g.S, defaultV)

onObject(S, m, addr, defaultV, f) == fieldOr(getStateObject(S, m, addr), defaultV, f)

\* MVRead of a sub-path or state key once the map is to be consulted: the
\* default for an account the reader does not see, else the map's answer
mvReadField(g, m, k, res, defaultV, f) ==
  IF g.panic THEN g
  ELSE IF g.val = None THEN Out(g.S, defaultV)
  ELSE mvResult(g.S, m, k, res,
                onObject(g.S, readStorageOn(g.S[m], m, k, res), k.addr, defaultV, f))

\* MVRead of a sub-path or state key
MVRead(S, m, k, defaultV, f) ==
  IF ~mvConsults(S[m], k) THEN onObject(S, m, k.addr, defaultV, f)
  ELSE mvReadField(getStateObject(S, m, k.addr), m, k,
                   MVHashMapRead(k, S[m].txIndex), defaultV, f)

GetBalance(S, m, addr) ==
  MVRead(S, m, NewSubpathKey(addr, BalancePath), 0,
         [name |-> "Balance"])

GetNonce(S, m, addr) ==
  MVRead(S, m, NewSubpathKey(addr, NoncePath), 0,
         [name |-> "Nonce"])

GetCode(S, m, addr) ==
  MVRead(S, m, NewSubpathKey(addr, CodePath), 0,
         [name |-> "Code"])

GetState(S, m, addr, key) ==
  MVRead(S, m, NewStateKey(addr, key), 0,
         [name |-> "State", key |-> key])

HasSelfDestructed(S, m, addr) ==
  MVRead(S, m, NewSubpathKey(addr, SuicidePath), FALSE,
         [name |-> "SelfDestructed"])

\* Exist: true also for a self-destructed account of the transaction
Exist(S, m, addr) ==
  LET g == getStateObject(S, m, addr)
  IN IF g.panic THEN g ELSE Out(g.S, IsSome(g.val))

\* Empty: absent, or empty by EIP-161
Empty(S, m, addr) ==
  LET g == getStateObject(S, m, addr)
  IN IF g.panic THEN g ELSE Out(g.S, g.val = None \/ empty(Get(g.val)))

\* ------------------------------------------------- state object setters
\* journal.append
append(s, e) == [s EXCEPT !.journal = Append(@, e)]

\* the manager's live object of an address
live(s, addr) == Get(s.stateObjects[addr])
setStateObject(s, o) == [s EXCEPT !.stateObjects[o.address] = Some(o)]

\* stateObject.SetBalance: journal the previous balance, then set
stateObject_SetBalance(s, addr, amount) ==
  LET o == live(s, addr)
  IN setStateObject(append(s, [JEntry("balanceChange", addr) EXCEPT !.prev = o.data.balance]),
                    [o EXCEPT !.data.balance = amount])

\* stateObject.touch
touch(s, addr) == append(s, JEntry("touchChange", addr))

\* stateObject.AddBalance: adding zero only touches an empty object
stateObject_AddBalance(s, addr, amount) ==
  IF amount = 0
  THEN IF empty(live(s, addr)) THEN touch(s, addr) ELSE s
  ELSE stateObject_SetBalance(s, addr, live(s, addr).data.balance + amount)

\* stateObject.SubBalance
stateObject_SubBalance(s, addr, amount) ==
  IF amount = 0 THEN s
  ELSE stateObject_SetBalance(s, addr, live(s, addr).data.balance - amount)

\* stateObject.SetNonce
stateObject_SetNonce(s, addr, nonce) ==
  LET o == live(s, addr)
  IN setStateObject(append(s, [JEntry("nonceChange", addr) EXCEPT !.prev = o.data.nonce]),
                    [o EXCEPT !.data.nonce = nonce])

\* stateObject.setCode: journal the previous code, then set
stateObject_setCode(s, addr, code) ==
  setStateObject(append(s, [JEntry("codeChange", addr) EXCEPT
                              !.prev = live(s, addr).data.codeHash,
                              !.prevcode = live(s, addr).code]),
                 [live(s, addr) EXCEPT !.code = IF code = 0 THEN None ELSE Some(code),
                                       !.data.codeHash = code,
                                       !.dirtyCode = TRUE])

\* stateObject.SetCode: the previous code is read (and loaded) first
stateObject_SetCode(S, m, addr, code) ==
  [stateObject_Code(S, live(S[m], addr)).S EXCEPT ![m] = stateObject_setCode(@, addr, code)]

\* stateObject.setState: journal the previous value, then set
stateObject_setState(s, addr, key, value, prev) ==
  setStateObject(append(s, [JEntry("storageChange", addr) EXCEPT !.key = key, !.prev = prev]),
                 [live(s, addr) EXCEPT !.dirtyStorage[key] = Some(value)])

\* stateObject.SetState after the previous value g was read: no entry and
\* no write when the value is unchanged
setStateOver(g, m, addr, key, value) ==
  IF g.val = value THEN g.S
  ELSE [g.S EXCEPT ![m] = stateObject_setState(@, addr, key, value, g.val)]

stateObject_SetState(S, m, addr, key, value) ==
  setStateOver(stateObject_GetState(S, live(S[m], addr), key), m, addr, key, value)

\* ------------------------------------------------------ versioned writes
ClearReadMap(s) == [s EXCEPT !.readMap = NoReads]

ClearWriteMap(s) == [s EXCEPT !.writeMap = NoWrites]

\* a SetIncarnation that empties the read set and the write set
SetIncarnation_clearsSets(s, inc) ==
  [s EXCEPT !.incarnation = inc, !.readMap = NoReads, !.writeMap = NoWrites]

SetIncarnation(s, inc) == [s EXCEPT !.incarnation = inc]

MVWrite(s, k) ==
  IF s.mvOn THEN [s EXCEPT !.writeMap[k] = Some([V |-> Version(s)])] ELSE s

RevertWrite(s, k) == [s EXCEPT !.revertedKeys = @ \cup {k}]

MVWritten(s, k) == s.mvOn /\ IsSome(s.writeMap[k])

\* mvRecordWritten: the first write of an address in an attempt clones the
\* object into the manager and records the address key
mvRecordWritten(s, m, object) ==
  IF ~s.mvOn THEN s
  ELSE IF MVWritten(s, NewAddressKey(object.address)) THEN s
  ELSE MVWrite(setStateObject(s, deepCopy(object, m)), NewAddressKey(object.address))

\* ------------------------------------------------------- journal reverts
\* journalEntry.revert of each kind of entry
revertEntry(s, e) ==
  LET a == e.account
      has == IsSome(s.stateObjects[a]) /\ ~live(s, a).deleted
      o == live(s, a)
  IN CASE e.kind = "createObjectChange" ->
            RevertWrite([s EXCEPT !.stateObjects[a] = None,
                                  !.stateObjectsDirty = @ \ {a}], NewAddressKey(a))
       [] e.kind = "resetObjectChange" ->
            LET s1 == [s EXCEPT !.stateObjects[a] = e.prevObj]
                s2 == IF ~e.flag THEN [s1 EXCEPT !.stateObjectsDestruct[a] = None] ELSE s1
                s3 == IF IsSome(e.prevAccount) THEN [s2 EXCEPT !.accounts[a] = e.prevAccount] ELSE s2
                s4 == IF IsSome(e.prevStorage) THEN [s3 EXCEPT !.storages[a] = e.prevStorage] ELSE s3
                s5 == IF e.prevAccountOriginExist
                      THEN [s4 EXCEPT !.accountsOrigin[a] = Some(e.prevAccountOrigin)] ELSE s4
                s6 == IF IsSome(e.prevStorageOrigin)
                      THEN [s5 EXCEPT !.storagesOrigin[a] = e.prevStorageOrigin] ELSE s5
            IN RevertWrite(s6, NewAddressKey(a))
       [] e.kind = "selfDestructChange" ->
            IF has
            THEN RevertWrite(setStateObject(s, [o EXCEPT !.selfDestructed = e.flag,
                                                         !.data.balance = e.prev]),
                             NewSubpathKey(a, SuicidePath))
            ELSE s
       [] e.kind = "balanceChange" ->
            IF has
            THEN RevertWrite(setStateObject(s, [o EXCEPT !.data.balance = e.prev]),
                             NewSubpathKey(a, BalancePath))
            ELSE s
       [] e.kind = "nonceChange" ->
            IF has
            THEN RevertWrite(setStateObject(s, [o EXCEPT !.data.nonce = e.prev]),
                             NewSubpathKey(a, NoncePath))
            ELSE s
       [] e.kind = "codeChange" ->
            IF has
            THEN RevertWrite(setStateObject(s, [o EXCEPT !.data.codeHash = e.prev,
                                                         !.code = e.prevcode,
                                                         !.dirtyCode = TRUE]),
                             NewSubpathKey(a, CodePath))
            ELSE s
       [] e.kind = "storageChange" ->
            IF has
            THEN RevertWrite(setStateObject(s, [o EXCEPT !.dirtyStorage[e.key] = Some(e.prev)]),
                             NewStateKey(a, e.key))
            ELSE s
       [] e.kind = "refundChange" -> [s EXCEPT !.refund = e.prev]
       [] OTHER -> s

\* journal.revert: undo the entries above the snapshot, the latest first
RECURSIVE journal_revert(_, _)
journal_revert(s, snapshot) ==
  IF Len(s.journal) <= snapshot THEN s
  ELSE LET e == s.journal[Len(s.journal)]
           s1 == [s EXCEPT !.journal = SubSeq(@, 1, Len(@) - 1)]
       IN journal_revert(revertEntry(s1, e), snapshot)

\* ---------------------------------------------------------------- refund
\* AddRefund: the previous counter is journalled, then the gas is added
AddRefund(s, gas) ==
  [append(s, [JEntry("refundChange", "") EXCEPT !.prev = s.refund]) EXCEPT !.refund = @ + gas]

\* a SubRefund that subtracts without the check
SubRefund_unchecked(s, gas) ==
  [s |-> [append(s, [JEntry("refundChange", "") EXCEPT !.prev = s.refund])
            EXCEPT !.refund = @ - gas],
   panic |-> FALSE]

\* SubRefund: the entry is journalled before the check that panics
SubRefund(s, gas) ==
  [s |-> [append(s, [JEntry("refundChange", "") EXCEPT !.prev = s.refund])
            EXCEPT !.refund = IF gas > s.refund THEN @ ELSE @ - gas],
   panic |-> gas > s.refund]

GetRefund(s) == s.refund

\* ------------------------------------------------- Snapshot and revert
\* Snapshot: the next identifier, paired with the journal length
Snapshot(s) ==
  [s EXCEPT !.nextRevisionId = @ + 1,
            !.validRevisions = Append(@, [id |-> s.nextRevisionId,
                                          journalIndex |-> Len(s.journal)])]

\* sort.Search over validRevisions: the first index whose id is >= revid
searchRevision(s, revid) ==
  LET hits == {i \in 1..Len(s.validRevisions) : s.validRevisions[i].id >= revid}
  IN IF hits = {} THEN Len(s.validRevisions) + 1
     ELSE CHOOSE i \in hits : \A j \in hits : i <= j

\* a check that looks only at whether the search ran off the end
revertPanics_searchOnly(s, revid) ==
  searchRevision(s, revid) = Len(s.validRevisions) + 1

\* whether RevertToSnapshot(revid) panics
revertPanics(s, revid) ==
  LET idx == searchRevision(s, revid)
  IN idx = Len(s.validRevisions) + 1 \/ s.validRevisions[idx].id # revid

\* a revert that forgets the revisions but leaves the journal alone
RevertToSnapshot_noReplay(s, revid) ==
  LET idx == searchRevision(s, revid)
  IN IF revertPanics(s, revid) THEN s
     ELSE [s EXCEPT !.validRevisions = SubSeq(@, 1, idx - 1)]

\* a revert that keeps the revision it reverted to
RevertToSnapshot_keepsRevision(s, revid) ==
  LET idx == searchRevision(s, revid)
      snapshot == s.validRevisions[idx].journalIndex
  IN IF revertPanics(s, revid) THEN s
     ELSE [journal_revert(s, snapshot) EXCEPT !.validRevisions = SubSeq(@, 1, idx)]

\* RevertToSnapshot: replay the journal down to the revision's length and
\* drop the revision and those taken after it
RevertToSnapshot(s, revid) ==
  LET idx == searchRevision(s, revid)
      snapshot == s.validRevisions[idx].journalIndex
  IN IF revertPanics(s, revid) THEN s
     ELSE [journal_revert(s, snapshot) EXCEPT !.validRevisions = SubSeq(@, 1, idx - 1)]

\* ------------------------------------------------------ object creation
\* what createObject returns: the new object and the live previous one
created(newobj, prev) ==
  [newobj |-> newobj,
   prev |-> IF prev # None /\ ~Get(prev).deleted THEN prev ELSE None]

\* a createObject that records the marker at every replacement
createOver_remarks(g, m, addr) ==
  LET s == g.S[m]
      s1 == IF g.val = None THEN append(s, JEntry("createObjectChange", addr))
            ELSE [s EXCEPT !.stateObjectsDestruct[addr] = Some(Get(g.val).origin)]
  IN IF g.panic THEN g
     ELSE Out([g.S EXCEPT ![m] = MVWrite(setStateObject(s1, newObject(m, addr, None)),
                                         NewAddressKey(addr))],
              created(newObject(m, addr, None), g.val))

\* the resetObjectChange entry of createObject
resetObjectChange(s, addr, prev) ==
  [JEntry("resetObjectChange", addr) EXCEPT
     !.prevObj = prev,
     !.flag = IsSome(s.stateObjectsDestruct[addr]),
     !.prevAccount = s.accounts[addr],
     !.prevStorage = s.storages[addr],
     !.prevAccountOriginExist = IsSome(s.accountsOrigin[addr]),
     !.prevAccountOrigin = IF IsSome(s.accountsOrigin[addr])
                           THEN Get(s.accountsOrigin[addr]) ELSE None,
     !.prevStorageOrigin = s.storagesOrigin[addr]]

\* createObject on a manager that holds a previous object: the first
\* replacement of a block records the destruct marker
replaceObject(s, addr, prev) ==
  [append(IF IsSome(s.stateObjectsDestruct[addr]) THEN s
          ELSE [s EXCEPT !.stateObjectsDestruct[addr] = Some(Get(prev).origin)],
          resetObjectChange(s, addr, prev))
     EXCEPT !.accounts[addr] = None,
            !.storages[addr] = None,
            !.accountsOrigin[addr] = None,
            !.storagesOrigin[addr] = None]

\* createObject after getDeletedStateObject gave g
createOver(g, m, addr) ==
  LET s == g.S[m]
      s1 == IF g.val = None THEN append(s, JEntry("createObjectChange", addr))
            ELSE replaceObject(s, addr, g.val)
  IN IF g.panic THEN g
     ELSE Out([g.S EXCEPT ![m] = MVWrite(setStateObject(s1, newObject(m, addr, None)),
                                         NewAddressKey(addr))],
              created(newObject(m, addr, None), g.val))

\* createObject: a fresh object replaces whatever the address held
createObject(S, m, addr) == createOver(getDeletedStateObject(S, m, addr), m, addr)

\* GetOrNewStateObject: the object createObject made
newStateObject(c) == IF c.panic THEN c ELSE Out(c.S, Some(c.val.newobj))

\* GetOrNewStateObject after getStateObject gave g
orNewStateObject(g, m, addr) ==
  IF g.panic THEN g
  ELSE IF IsSome(g.val) THEN g
  ELSE newStateObject(createObject(g.S, m, addr))

GetOrNewStateObject(S, m, addr) == orNewStateObject(getStateObject(S, m, addr), m, addr)

\* CreateAccount after createObject gave c: the balance of a live previous
\* object is carried over
carryBalance(c, m, addr) ==
  IF c.panic THEN c
  ELSE IF IsSome(c.val.prev)
    THEN Out([c.S EXCEPT ![m] =
                MVWrite(setStateObject(@, [live(@, addr) EXCEPT
                                             !.data.balance = Get(c.val.prev).data.balance]),
                        NewSubpathKey(addr, BalancePath))],
             None)
  ELSE Out(c.S, None)

CreateAccount(S, m, addr) == carryBalance(createObject(S, m, addr), m, addr)

\* ------------------------------------------------------- StateDB setters
\* the state object call a setter makes: the object journals the change in
\* the manager it belongs to (stateObject.db), o here
mutateOn(S, o, addr, c) ==
  CASE c.name = "AddBalance" -> [S EXCEPT ![o] = stateObject_AddBalance(@, addr, c.arg)]
    [] c.name = "SubBalance" -> [S EXCEPT ![o] = stateObject_SubBalance(@, addr, c.arg)]
    [] c.name = "SetBalance" -> [S EXCEPT ![o] = stateObject_SetBalance(@, addr, c.arg)]
    [] c.name = "SetNonce" -> [S EXCEPT ![o] = stateObject_SetNonce(@, addr, c.arg)]
    [] c.name = "SetCode" -> stateObject_SetCode(S, o, addr, c.arg)
    [] OTHER -> stateObject_SetState(S, o, addr, c.key, c.arg)

\* the call is made on the object the manager's map holds for the address
mutate(S, m, addr, c) == mutateOn(S, live(S[m], addr).db, addr, c)

\* the write of a setter: clone on the first write of the address, mutate
\* the object, record the key in the write set
setterWrite(r, object, m, addr, k, c) ==
  IF r.panic THEN r
  ELSE Out([mutate([r.S EXCEPT ![m] = mvRecordWritten(@, m, object)], m, addr, c)
              EXCEPT ![m] = MVWrite(@, k)],
           None)

\* a setter after GetOrNewStateObject gave g: AddBalance and SubBalance
\* read the balance first in multi-version mode
setterOver(g, m, addr, k, readsBalance, c) ==
  IF g.panic THEN g
  ELSE setterWrite(IF readsBalance /\ g.S[m].mvOn THEN GetBalance(g.S, m, addr) ELSE g,
                   Get(g.val), m, addr, k, c)

\* setters that do nothing on a manager whose snapshot handle Commit has
\* dropped
setter_refusesCommitted(S, m, addr, k, readsBalance, c) ==
  IF S[m].snap = "nil" THEN Out(S, None)
  ELSE setterOver(GetOrNewStateObject(S, m, addr), m, addr, k, readsBalance, c)

\* the shape shared by the setters
setter(S, m, addr, k, readsBalance, c) ==
  setterOver(GetOrNewStateObject(S, m, addr), m, addr, k, readsBalance, c)

AddBalance(S, m, addr, amount) ==
  setter(S, m, addr, NewSubpathKey(addr, BalancePath), TRUE,
         [name |-> "AddBalance", arg |-> amount])

SubBalance(S, m, addr, amount) ==
  setter(S, m, addr, NewSubpathKey(addr, BalancePath), TRUE,
         [name |-> "SubBalance", arg |-> amount])

SetBalance(S, m, addr, amount) ==
  setter(S, m, addr, NewSubpathKey(addr, BalancePath), FALSE,
         [name |-> "SetBalance", arg |-> amount])

SetNonce(S, m, addr, nonce) ==
  setter(S, m, addr, NewSubpathKey(addr, NoncePath), FALSE,
         [name |-> "SetNonce", arg |-> nonce])

SetCode(S, m, addr, code) ==
  setter(S, m, addr, NewSubpathKey(addr, CodePath), FALSE,
         [name |-> "SetCode", arg |-> code])

SetState(S, m, addr, key, value) ==
  setter(S, m, addr, NewStateKey(addr, key), FALSE,
         [name |-> "SetState", key |-> key, arg |-> value])

markSelfdestructed_keepsBalance(s, addr) ==
  setStateObject(append(s, [JEntry("selfDestructChange", addr) EXCEPT
                              !.flag = live(s, addr).selfDestructed,
                              !.prev = live(s, addr).data.balance]),
                 [live(s, addr) EXCEPT !.selfDestructed = TRUE])

\* stateObject.markSelfdestructed and the clearing of the balance, both
\* journalled in one entry
markSelfdestructed(s, addr) ==
  setStateObject(append(s, [JEntry("selfDestructChange", addr) EXCEPT
                              !.flag = live(s, addr).selfDestructed,
                              !.prev = live(s, addr).data.balance]),
                 [live(s, addr) EXCEPT !.selfDestructed = TRUE, !.data.balance = 0])

\* SelfDestruct after getStateObject gave g: nothing for an absent account
selfDestructOver(g, m, addr) ==
  IF g.panic THEN g
  ELSE IF g.val = None THEN Out(g.S, None)
  ELSE Out([g.S EXCEPT ![m] =
              MVWrite(MVWrite(markSelfdestructed(mvRecordWritten(@, m, Get(g.val)), addr),
                              NewSubpathKey(addr, SuicidePath)),
                      NewSubpathKey(addr, BalancePath))],
           None)

SelfDestruct(S, m, addr) == selfDestructOver(getStateObject(S, m, addr), m, addr)

\* --------------------------------------------------- write set lists
\* the keys in the order the model lists them; a Go map is iterated in
\* any order, the lists below come in this order or in its reverse
KeysOf(a) ==
  <<NewAddressKey(a), NewSubpathKey(a, BalancePath), NewSubpathKey(a, NoncePath),
    NewSubpathKey(a, CodePath), NewSubpathKey(a, SuicidePath), NewStateKey(a, "k")>>
KeyOrder == KeysOf("A") \o KeysOf("B")
Reverse(seq) == [i \in 1..Len(seq) |-> seq[Len(seq) + 1 - i]]
KeyOrders == {KeyOrder, Reverse(KeyOrder)}

\* blockstm.WriteDescriptor: Val is the manager that wrote
writeDescriptor(s, m, k) == [Path |-> k, V |-> Get(s.writeMap[k]).V, Val |-> m]

\* the descriptors of the write set whose key passes keep, in an order
writeList(s, m, order, keep) ==
  LET in(k) == IsSome(s.writeMap[k]) /\ k \in keep
      keys == SelectSeq(order, in)
  IN [i \in 1..Len(keys) |-> writeDescriptor(s, m, keys[i])]

MVFullWriteList(s, m, order) == writeList(s, m, order, AllKeys)

MVWriteList(s, m, order) == writeList(s, m, order, AllKeys \ s.revertedKeys)

\* blockstm.ReadDescriptor
readDescriptor(s, k) ==
  [Path |-> k, V |-> Get(s.readMap[k]).V, Kind |-> Get(s.readMap[k]).Kind]

\* MVReadList: the descriptors of the read set, in an order
MVReadList(s, order) ==
  LET in(k) == IsSome(s.readMap[k])
      keys == SelectSeq(order, in)
  IN [i \in 1..Len(keys) |-> readDescriptor(s, keys[i])]

\* DumpStruct
DumpStruct(s, val, op) ==
  [TxIdx |-> s.txIndex, TxInc |-> s.incarnation,
   VerIdx |-> val.V.TxnIndex, VerInc |-> val.V.Incarnation,
   Path |-> val.Path, Op |-> op]

\* the dump of a list of descriptors
dumpOf(s, list, op) == [i \in 1..Len(list) |-> DumpStruct(s, list[i], op)]

GetReadMapDump(s, order) == dumpOf(s, MVReadList(s, order), "Read\n")

\* GetWriteMapDump takes its list from MVReadList
GetWriteMapDump(s, order) == dumpOf(s, MVReadList(s, order), "Write\n")

\* ---------------------------------------------------- ApplyMVWriteSet
\* the setter ApplyMVWriteSet calls on receiver r with what g, the getter
\* on the writer, returned
applySet(g, r, k) ==
  IF g.panic THEN g
  ELSE CASE IsState(k) -> SetState(g.S, r, k.addr, k.slot, g.val)
         [] k.sub = BalancePath -> SetBalance(g.S, r, k.addr, g.val)
         [] k.sub = NoncePath -> SetNonce(g.S, r, k.addr, g.val)
         [] OTHER -> SetCode(g.S, r, k.addr, g.val)

\* SuicidePath: the receiver self-destructs the account when the writer's
\* object is deleted
applySuicide(g, r, k) ==
  IF g.panic THEN g
  ELSE IF IsSome(g.val) /\ Get(g.val).deleted THEN SelfDestruct(g.S, r, k.addr)
  ELSE Out(g.S, None)

\* an apply that carries the writer's self-destruct flag over
applyWrite_copiesFlag(S, r, w) ==
  LET k == w.Path
      sr == w.Val
  IN CASE IsAddress(k) -> Out(S, None)
       [] IsState(k) -> applySet(GetState(S, sr, k.addr, k.slot), r, k)
       [] k.sub = BalancePath -> applySet(GetBalance(S, sr, k.addr), r, k)
       [] k.sub = NoncePath -> applySet(GetNonce(S, sr, k.addr), r, k)
       [] k.sub = CodePath -> applySet(GetCode(S, sr, k.addr), r, k)
       [] OTHER -> IF HasSelfDestructed(S, sr, k.addr).val = TRUE
                   THEN SelfDestruct(S, r, k.addr) ELSE Out(S, None)

\* one descriptor of the list: address keys are skipped
applyWrite(S, r, w) ==
  LET k == w.Path
      sr == w.Val
  IN CASE IsAddress(k) -> Out(S, None)
       [] IsState(k) -> applySet(GetState(S, sr, k.addr, k.slot), r, k)
       [] k.sub = BalancePath -> applySet(GetBalance(S, sr, k.addr), r, k)
       [] k.sub = NoncePath -> applySet(GetNonce(S, sr, k.addr), r, k)
       [] k.sub = CodePath -> applySet(GetCode(S, sr, k.addr), r, k)
       [] OTHER -> applySuicide(getDeletedStateObject(S, sr, k.addr), r, k)

RECURSIVE ApplyMVWriteSet(_, _, _)
applyRest(o, r, writes) == IF o.panic THEN o ELSE ApplyMVWriteSet(o.S, r, writes)

ApplyMVWriteSet(S, r, writes) ==
  IF writes = <<>> THEN Out(S, None)
  ELSE applyRest(applyWrite(S, r, Head(writes)), r, Tail(writes))

\* ------------------------------------------------- the multi-version map
\* a flush that publishes nothing
FlushMVWriteSet_publishesNothing(mv, s, m) == mv

\* MVHashMap.FlushMVWriteSet over MVFullWriteList: every key of the write
\* set gets a done cell at the writer's index that refers to the manager
FlushMVWriteSet(mv, s, m) ==
  IF ~s.mvOn THEN mv
  ELSE [k \in AllKeys |->
          IF IsSome(s.writeMap[k])
          THEN [mv[k] EXCEPT ![Get(s.writeMap[k]).V.TxnIndex] =
                  Some([flag |-> "done",
                        incarnation |-> Get(s.writeMap[k]).V.Incarnation,
                        data |-> m])]
          ELSE mv[k]]

\* MVHashMap.MarkEstimate on every cell a transaction has in the map
MarkEstimate(mv, txIdx) ==
  [k \in AllKeys |->
     IF IsSome(mv[k][txIdx])
     THEN [mv[k] EXCEPT ![txIdx] = Some([Get(@) EXCEPT !.flag = "estimate"])]
     ELSE mv[k]]

\* -------------------------------------------------------------- Finalise
\* stateObject.finalise: the dirty slots of the transaction become pending
stateObject_finalise(o) ==
  [o EXCEPT !.pendingStorage = [k \in Slots |-> IF IsSome(o.dirtyStorage[k])
                                                 THEN o.dirtyStorage[k] ELSE @[k]],
            !.dirtyStorage = NoSlots]

\* a Finalise that deletes self-destructed objects only
finaliseObject_keepsEmpty(s, addr, deleteEmptyObjects) ==
  LET obj == live(s, addr)
      marked == IF IsSome(s.stateObjectsDestruct[addr]) THEN s
                ELSE [s EXCEPT !.stateObjectsDestruct[addr] = Some(obj.origin)]
      gone == [marked EXCEPT !.stateObjects[addr] = Some([obj EXCEPT !.deleted = TRUE,
                                                                     !.created = FALSE])]
      kept == [s EXCEPT !.stateObjects[addr] =
                 Some([stateObject_finalise(obj) EXCEPT !.created = FALSE])]
      s1 == IF obj.selfDestructed THEN gone ELSE kept
  IN IF s.stateObjects[addr] = None THEN s
     ELSE [s1 EXCEPT !.stateObjectsPending = @ \cup {addr},
                     !.stateObjectsDirty = @ \cup {addr}]

\* the body of Finalise's loop for one dirtied address
finaliseObject(s, addr, deleteEmptyObjects) ==
  LET obj == live(s, addr)
      marked == IF IsSome(s.stateObjectsDestruct[addr]) THEN s
                ELSE [s EXCEPT !.stateObjectsDestruct[addr] = Some(obj.origin)]
      gone == [marked EXCEPT !.stateObjects[addr] = Some([obj EXCEPT !.deleted = TRUE,
                                                                     !.created = FALSE]),
                             !.accounts[addr] = None,
                             !.storages[addr] = None,
                             !.accountsOrigin[addr] = None,
                             !.storagesOrigin[addr] = None]
      kept == [s EXCEPT !.stateObjects[addr] =
                 Some([stateObject_finalise(obj) EXCEPT !.created = FALSE])]
      s1 == IF obj.selfDestructed \/ (deleteEmptyObjects /\ empty(obj)) THEN gone ELSE kept
  IN IF s.stateObjects[addr] = None THEN s
     ELSE [s1 EXCEPT !.stateObjectsPending = @ \cup {addr},
                     !.stateObjectsDirty = @ \cup {addr}]

\* a reset that starts the revision identifiers again
clearJournalAndRefund_restartsIds(s) ==
  [s EXCEPT !.journal = <<>>,
            !.refund = IF Len(s.journal) > 0 THEN 0 ELSE @,
            !.validRevisions = <<>>,
            !.nextRevisionId = 0]

\* a reset that forgets the revisions only together with the journal
clearJournalAndRefund_keepsRevisions(s) ==
  [s EXCEPT !.journal = <<>>,
            !.refund = IF Len(s.journal) > 0 THEN 0 ELSE @,
            !.validRevisions = IF Len(s.journal) > 0 THEN <<>> ELSE @]

\* clearJournalAndRefund: the refund is reset only with a non-empty journal
clearJournalAndRefund(s) ==
  [s EXCEPT !.journal = <<>>,
            !.refund = IF Len(s.journal) > 0 THEN 0 ELSE @,
            !.validRevisions = <<>>]

\* the loop of Finalise over journal.dirties, visited in the given order
RECURSIVE finaliseLoop(_, _, _, _)
finaliseLoop(s, todo, order, deleteEmptyObjects) ==
  IF order = <<>> THEN s
  ELSE LET a == Head(order)
           s1 == IF a \in todo THEN finaliseObject(s, a, deleteEmptyObjects) ELSE s
       IN finaliseLoop(s1, todo, Tail(order), deleteEmptyObjects)

Finalise(s, deleteEmptyObjects, order) ==
  clearJournalAndRefund(finaliseLoop(s, dirties(s.journal), order, deleteEmptyObjects))

\* ------------------------------------------------------ IntermediateRoot
\* stateObject.updateTrie: pending slots that differ from the clean cache
\* go to the storage trie and to the block's storage sets
updateTrie(s, addr) ==
  LET o == stateObject_finalise(live(s, addr))
      base == getTrie(o)
      originVal(k) == IF IsSome(o.originStorage[k]) THEN Get(o.originStorage[k]) ELSE 0
      changed == {k \in Slots : IsSome(o.pendingStorage[k])
                                 /\ Get(o.pendingStorage[k]) # originVal(k)}
      tr == [k \in Slots |-> IF k \in changed THEN Get(o.pendingStorage[k]) ELSE base[k]]
      o1 == [o EXCEPT !.trie = Some(tr),
                      !.originStorage = [k \in Slots |-> IF k \in changed
                                                         THEN o.pendingStorage[k] ELSE @[k]],
                      !.pendingStorage = NoSlots]
      oldS == IF IsSome(s.storages[addr]) THEN Get(s.storages[addr]) ELSE NoSlots
      oldO == IF IsSome(s.storagesOrigin[addr]) THEN Get(s.storagesOrigin[addr]) ELSE NoSlots
      newS == [k \in Slots |-> IF k \in changed THEN o.pendingStorage[k] ELSE oldS[k]]
      newO == [k \in Slots |-> IF k \in changed /\ oldO[k] = None
                               THEN Some(originVal(k)) ELSE oldO[k]]
      s1 == IF changed = {} THEN s
            ELSE [s EXCEPT !.storages[addr] = Some(newS), !.storagesOrigin[addr] = Some(newO)]
  IN IF \A k \in Slots : o.pendingStorage[k] = None
     THEN [s |-> setStateObject(s, o), tr |-> o.trie, err |-> FALSE]
     ELSE IF ~canOpenStorageTrie(o)
     THEN [s |-> setError(setStateObject(s, o), "can't open storage trie"),
           tr |-> None, err |-> TRUE]
     ELSE [s |-> setStateObject(s1, o1), tr |-> Some(tr), err |-> FALSE]

\* stateObject.updateRoot after updateTrie gave u
updateRootOver(u, addr) ==
  IF u.err \/ u.tr = None THEN u.s
  ELSE setStateObject(u.s, [live(u.s, addr) EXCEPT !.data.root = Get(u.tr)])

\* stateObject.updateRoot
updateRoot(s, addr) == updateRootOver(updateTrie(s, addr), addr)

\* updateStateObject: the account goes to the trie and to the block's
\* account sets; the original value is tracked once
updateStateObject(s, addr) ==
  LET obj == live(s, addr)
      s1 == IF db.faulty THEN setError(s, "updateStateObject")
            ELSE [s EXCEPT !.trie[addr] = Some(obj.data)]
      s2 == [s1 EXCEPT !.accounts[addr] = Some(SlimAccountRLP(obj.data))]
  IN IF IsSome(s2.accountsOrigin[addr]) THEN s2
     ELSE [s2 EXCEPT !.accountsOrigin[addr] =
             Some(IF obj.origin = None THEN None
                  ELSE Some(SlimAccountRLP(Get(obj.origin))))]

\* deleteStateObject
deleteStateObject(s, addr) ==
  IF db.faulty THEN setError(s, "deleteStateObject")
  ELSE [s EXCEPT !.trie[addr] = None]

\* first loop of IntermediateRoot over the pending addresses
RECURSIVE updateRoots(_, _, _)
updateRoots(s, todo, order) ==
  IF order = <<>> THEN s
  ELSE LET a == Head(order)
           s1 == IF a \in todo /\ ~live(s, a).deleted THEN updateRoot(s, a) ELSE s
       IN updateRoots(s1, todo, Tail(order))

\* a second loop that stops after the first address it is handed
updateAccounts_firstOnly(s, todo, order) ==
  LET a == Head(order)
  IN IF order = <<>> \/ a \notin todo THEN s
     ELSE IF live(s, a).deleted THEN deleteStateObject(s, a)
     ELSE updateStateObject(s, a)

\* second loop of IntermediateRoot
RECURSIVE updateAccounts(_, _, _)
updateAccounts(s, todo, order) ==
  IF order = <<>> THEN s
  ELSE LET a == Head(order)
           s1 == IF a \notin todo THEN s
                 ELSE IF live(s, a).deleted THEN deleteStateObject(s, a)
                 ELSE updateStateObject(s, a)
       IN updateAccounts(s1, todo, Tail(order))

\* the two loops of IntermediateRoot over the pending addresses
updatePending(f, order) ==
  updateAccounts(updateRoots(f, f.stateObjectsPending, order), f.stateObjectsPending, order)

\* the hash of the account trie of a manager
rootOf(s) == [s |-> s, root |-> HashTrie(s.trie)]

\* an IntermediateRoot that leaves the pending set as it is
IntermediateRoot_keepsPending(s, deleteEmptyObjects, order) ==
  rootOf(updatePending(Finalise(s, deleteEmptyObjects, order), order))

\* IntermediateRoot: Finalise, push the pending objects into the tries,
\* forget the pending set, hash the account trie
IntermediateRoot(s, deleteEmptyObjects, order) ==
  rootOf([updatePending(Finalise(s, deleteEmptyObjects, order), order)
            EXCEPT !.stateObjectsPending = {}])

\* ------------------------------------------------------------------------
\* Storage deletion as a function of what the iterators deliver.
\*
\* A storage trie under deletion is the sequence of items its node iterator
\* yields: a leaf with the length of its encoded value, or a node with the
\* length of its path (zero: the node is embedded in its parent and has the
\* zero hash).  The snapshot iterator of the fast path yields the leaves of
\* the same sequence, and the stack trie built from them writes each hashed
\* node when the next slot is inserted, the last ones when it is hashed.
\* in.fails names the step that returns an error, in.failsAt the item at
\* which a per-slot step does; in.root is the storage root of the account.

StorageItem ==
  [leaf : {TRUE}, len : 1..MaxLen, zero : {FALSE}]
    \cup [leaf : {FALSE}, len : 1..MaxPath, zero : {FALSE}]
    \cup [leaf : {FALSE}, len : {0}, zero : BOOLEAN]

RECURSIVE StorageItemsUpTo(_)
StorageItemsUpTo(n) ==
  IF n = 0 THEN {<<>>}
  ELSE StorageItemsUpTo(n - 1)
         \cup {Append(q, i) : q \in {p \in StorageItemsUpTo(n - 1) : Len(p) = n - 1},
                              i \in StorageItem}

\* the slots of a storage, keyed by their position
RECURSIVE leavesOf(_)
leavesOf(items) ==
  IF items = <<>> THEN <<>>
  ELSE IF Head(items).leaf THEN <<Head(items).len>> \o leavesOf(Tail(items))
  ELSE leavesOf(Tail(items))

\* stack.Hash(): the root of the trie holding exactly the slots inserted
stackHash(items) == leavesOf(items)

\* the size the specification measures: 32 + value length for every slot,
\* plus the path lengths of the nodes to delete
RECURSIVE storageSize(_)
storageSize(items) ==
  IF items = <<>> THEN 0
  ELSE storageSize(Tail(items))
         + (IF Head(items).leaf THEN HashLength + Head(items).len
            ELSE IF Head(items).zero THEN 0 ELSE Head(items).len)

deleteFailed(err) ==
  [aborted |-> FALSE, size |-> 0, slots |-> None, nodes |-> None, err |-> err]
deleteAborted(size) ==
  [aborted |-> TRUE, size |-> size, slots |-> None, nodes |-> None, err |-> ""]
deleteDone(size, slots, nodes) ==
  [aborted |-> FALSE, size |-> size, slots |-> Some(slots),
   nodes |-> Some(nodes), err |-> ""]

\* the loop of fastDeleteStorage from item i on; pending is what the stack
\* trie's writer has still to emit
RECURSIVE fastIterate(_, _, _, _, _)
fastIterate(in, i, size, nodes, pending) ==
  IF i > Len(in.items)
    THEN [stop |-> "", size |-> size, nodes |-> nodes, pending |-> pending]
  ELSE IF ~in.items[i].leaf
    THEN fastIterate(in, i + 1, size, nodes,
                     IF in.items[i].zero THEN pending
                     ELSE pending + in.items[i].len)
  ELSE IF size > storageDeleteLimit
    THEN [stop |-> "aborted", size |-> size, nodes |-> nodes, pending |-> pending]
  ELSE IF in.fails = "slot" /\ in.failsAt = i
    THEN [stop |-> "iter.Error", size |-> size, nodes |-> nodes, pending |-> pending]
  ELSE IF in.fails = "update" /\ in.failsAt = i
    THEN [stop |-> "stack.Update", size |-> size, nodes |-> nodes, pending |-> pending]
  ELSE fastIterate(in, i + 1, size + HashLength + in.items[i].len + pending,
                   nodes + pending, 0)

fastFinish_noRootCheck(in, it) ==
  IF it.stop = "aborted" THEN deleteAborted(it.size)
  ELSE IF it.stop # "" THEN deleteFailed(it.stop)
  ELSE IF in.fails = "end" THEN deleteFailed("iter.Error")
  ELSE deleteDone(it.size + it.pending, leavesOf(in.items), it.nodes + it.pending)

fastFinish(in, it) ==
  IF it.stop = "aborted" THEN deleteAborted(it.size)
  ELSE IF it.stop # "" THEN deleteFailed(it.stop)
  ELSE IF in.fails = "end" THEN deleteFailed("iter.Error")
  ELSE IF stackHash(in.items) # in.root THEN deleteFailed("snapshot is not matched")
  ELSE deleteDone(it.size + it.pending, leavesOf(in.items), it.nodes + it.pending)

fastDeleteStorage(in) ==
  IF in.fails = "account" THEN deleteFailed("snap.Account")
  ELSE IF in.fails = "open" THEN deleteFailed("snaps.StorageIterator")
  ELSE fastFinish(in, fastIterate(in, 1, 0, 0, 0))

\* the loop of slowDeleteStorage from item i on
RECURSIVE slowIterate(_, _, _, _)
slowIterate(in, i, size, nodes) ==
  IF i > Len(in.items) THEN [stop |-> "", size |-> size, nodes |-> nodes]
  ELSE IF size > storageDeleteLimit
    THEN [stop |-> "aborted", size |-> size, nodes |-> nodes]
  ELSE IF in.items[i].leaf
    THEN slowIterate(in, i + 1, size + HashLength + in.items[i].len, nodes)
  ELSE IF in.items[i].zero THEN slowIterate(in, i + 1, size, nodes)
  ELSE slowIterate(in, i + 1, size + in.items[i].len, nodes + in.items[i].len)

slowFinish(in, it) ==
  IF it.stop = "aborted" THEN deleteAborted(it.size)
  ELSE IF in.fails = "end" THEN deleteFailed("it.Error")
  ELSE deleteDone(it.size, leavesOf(in.items), it.nodes)

slowDeleteStorage(in) ==
  IF in.fails = "open" THEN deleteFailed("failed to open storage trie")
  ELSE IF in.fails = "iterator" THEN deleteFailed("failed to open storage iterator")
  ELSE slowFinish(in, slowIterate(in, 1, 0, 0))

\* ---------------------------------------------------------------- Commit
\* deleteStorage: the slots of the storage trie at root, iterated from the
\* snapshot layer of the original root when it matches (fastDeleteStorage),
\* else from the trie database (slowDeleteStorage)
\*
\* db.bulk names the accounts whose storage, at a state root, holds more
\* than the slots of Slots: filler slots no transaction touches, enough of
\* them to pass storageDeleteLimit.
bulky(s, addr) == [root |-> s.originalRoot, addr |-> addr] \in db.bulk

RECURSIVE slotItems(_, _)
slotItems(root, slots) ==
  IF slots = {} THEN <<>>
  ELSE LET k == CHOOSE x \in slots : TRUE
       IN (IF root[k] = 0 THEN <<>>
           ELSE <<[leaf |-> TRUE, len |-> root[k], zero |-> FALSE]>>)
          \o slotItems(root, slots \ {k})

\* what the iterators deliver for the storage with this root
storageItems(root, bulk) ==
  (IF bulk THEN [i \in 1..(MaxItems - 1) |-> [leaf |-> TRUE, len |-> MaxLen, zero |-> FALSE]]
   ELSE <<>>) \o slotItems(root, Slots)

\* what fastDeleteStorage meets: pluginSnapshot.Account is not implemented,
\* the tree may hold no layer for the original root
fastInput(s, addr, root) ==
  [path |-> "fast",
   items |-> IF HasLayer(s.originalRoot)
             THEN storageItems(Layer(s.originalRoot).storage[addr], bulky(s, addr))
             ELSE <<>>,
   root |-> stackHash(storageItems(root, bulky(s, addr))),
   fails |-> IF s.snap = "plugin" THEN "account"
             ELSE IF ~HasLayer(s.originalRoot) THEN "open" ELSE "",
   failsAt |-> 1]

\* what slowDeleteStorage meets: the storage trie may not open
slowInput(s, addr, root) ==
  [path |-> "slow",
   items |-> storageItems(root, bulky(s, addr)),
   root |-> stackHash(storageItems(root, bulky(s, addr))),
   fails |-> IF db.faulty \/ root \notin db.storageTries THEN "open" ELSE "",
   failsAt |-> 1]

\* what deleteStorage returns when fast and slow are what the two paths
\* returned (None: the path was not run)
deleteResult(root, fast, slow) ==
  LET d == IF slow # None THEN Get(slow) ELSE Get(fast)
  IN [err |-> d.err # "",
      aborted |-> d.err = "" /\ d.aborted,
      slots |-> [k \in Slots |-> IF root[k] = 0 THEN None ELSE Some(root[k])],
      fast |-> fast,
      slow |-> slow]

\* a deleteStorage that takes the slow path after an aborted fast path too
deleteAfterFast_retriesAbort(root, fast, slowIn) ==
  deleteResult(root, fast,
               IF fast = None \/ Get(fast).err # "" \/ Get(fast).aborted
               THEN Some(slowDeleteStorage(slowIn)) ELSE None)

\* deleteStorage once the fast path, if there is a snapshot, has returned
deleteAfterFast(root, fast, slowIn) ==
  deleteResult(root, fast,
               IF fast = None \/ Get(fast).err # ""
               THEN Some(slowDeleteStorage(slowIn)) ELSE None)

deleteStorage(s, addr, root) ==
  deleteAfterFast(root,
                  IF s.snap # "nil" THEN Some(fastDeleteStorage(fastInput(s, addr, root)))
                  ELSE None,
                  slowInput(s, addr, root))

\* a loop body that leaves storagesOrigin as it is after an aborted deletion
handleMarker_keepsOrigin(s, addr) ==
  LET prev == Get(s.stateObjectsDestruct[addr])
      p == Get(prev)
      d == deleteStorage(s, addr, p.root)
      s1 == [s EXCEPT !.accountsOrigin[addr] = Some(Some(SlimAccountRLP(p)))]
      oldO == Get(s1.storagesOrigin[addr])
      merged == [k \in Slots |-> IF IsSome(d.slots[k]) THEN d.slots[k] ELSE oldO[k]]
  IN IF prev = None
     THEN [s |-> IF IsSome(s.accounts[addr])
                 THEN [s EXCEPT !.accountsOrigin[addr] = Some(None)] ELSE s,
           err |-> FALSE, incomplete |-> FALSE]
     ELSE IF p.root = EmptyStorageRoot THEN [s |-> s1, err |-> FALSE, incomplete |-> FALSE]
     ELSE IF d.err THEN [s |-> s1, err |-> TRUE, incomplete |-> FALSE]
     ELSE IF d.aborted
       THEN [s |-> s1, err |-> FALSE, incomplete |-> TRUE]
     ELSE [s |-> [s1 EXCEPT !.storagesOrigin[addr] =
                    IF @ = None THEN Some(d.slots) ELSE Some(merged)],
           err |-> FALSE, incomplete |-> FALSE]

\* a loop body that keeps the original account updateStateObject tracked
handleMarker_keepsTracked(s, addr) ==
  LET prev == Get(s.stateObjectsDestruct[addr])
      p == Get(prev)
      d == deleteStorage(s, addr, p.root)
      s1 == IF IsSome(s.accountsOrigin[addr]) THEN s
            ELSE [s EXCEPT !.accountsOrigin[addr] = Some(Some(SlimAccountRLP(p)))]
      oldO == Get(s1.storagesOrigin[addr])
      merged == [k \in Slots |-> IF IsSome(d.slots[k]) THEN d.slots[k] ELSE oldO[k]]
  IN IF prev = None
     THEN [s |-> IF IsSome(s.accounts[addr])
                 THEN [s EXCEPT !.accountsOrigin[addr] = Some(None)] ELSE s,
           err |-> FALSE, incomplete |-> FALSE]
     ELSE IF p.root = EmptyStorageRoot THEN [s |-> s1, err |-> FALSE, incomplete |-> FALSE]
     ELSE IF d.err THEN [s |-> s1, err |-> TRUE, incomplete |-> FALSE]
     ELSE IF d.aborted
       THEN [s |-> [s1 EXCEPT !.storagesOrigin[addr] = None], err |-> FALSE, incomplete |-> TRUE]
     ELSE [s |-> [s1 EXCEPT !.storagesOrigin[addr] =
                    IF @ = None THEN Some(d.slots) ELSE Some(merged)],
           err |-> FALSE, incomplete |-> FALSE]

\* the body of handleDestruction's loop for one destruct marker
handleMarker(s, addr) ==
  LET prev == Get(s.stateObjectsDestruct[addr])
      p == Get(prev)
      d == deleteStorage(s, addr, p.root)
      s1 == [s EXCEPT !.accountsOrigin[addr] = Some(Some(SlimAccountRLP(p)))]
      oldO == Get(s1.storagesOrigin[addr])
      merged == [k \in Slots |-> IF IsSome(d.slots[k]) THEN d.slots[k] ELSE oldO[k]]
  IN IF prev = None
     THEN [s |-> IF IsSome(s.accounts[addr])
                 THEN [s EXCEPT !.accountsOrigin[addr] = Some(None)] ELSE s,
           err |-> FALSE, incomplete |-> FALSE]
     ELSE IF p.root = EmptyStorageRoot THEN [s |-> s1, err |-> FALSE, incomplete |-> FALSE]
     ELSE IF d.err THEN [s |-> s1, err |-> TRUE, incomplete |-> FALSE]
     ELSE IF d.aborted
       THEN [s |-> [s1 EXCEPT !.storagesOrigin[addr] = None], err |-> FALSE, incomplete |-> TRUE]
     ELSE [s |-> [s1 EXCEPT !.storagesOrigin[addr] =
                    IF @ = None THEN Some(d.slots) ELSE Some(merged)],
           err |-> FALSE, incomplete |-> FALSE]

\* handleDestruction: nothing under the hash scheme; otherwise every marker
\* is processed until the first failure
RECURSIVE handleLoop(_, _, _)
handleLoop(s, order, incomplete) ==
  IF order = <<>> THEN [s |-> s, err |-> FALSE, incomplete |-> incomplete]
  ELSE LET a == Head(order)
           h == handleMarker(s, a)
       IN IF s.stateObjectsDestruct[a] = None THEN handleLoop(s, Tail(order), incomplete)
          ELSE IF h.err THEN [s |-> h.s, err |-> TRUE, incomplete |-> {}]
          ELSE handleLoop(h.s, Tail(order),
                          IF h.incomplete THEN incomplete \cup {a} ELSE incomplete)

handleDestruction(s, order) ==
  IF db.scheme = "hash" THEN [s |-> s, err |-> FALSE, incomplete |-> {}]
  ELSE handleLoop(s, order, {})

\* stateObject.commit after updateTrie gave u
commitOver(u, o) ==
  IF u.err THEN [s |-> u.s, err |-> TRUE, nodes |-> {}]
  ELSE IF u.tr = None
    THEN [s |-> setStateObject(u.s, [o EXCEPT !.origin = Some(o.data)]),
          err |-> FALSE, nodes |-> {}]
  ELSE [s |-> setStateObject(u.s, [o EXCEPT !.data.root = Get(u.tr),
                                            !.origin = Some([o.data EXCEPT !.root = Get(u.tr)])]),
        err |-> FALSE, nodes |-> {Get(u.tr)}]

\* the object updateTrie leaves in the manager
updated(u, addr) == live(u.s, addr)

\* stateObject.commit: the storage trie is committed and the account as it
\* is now becomes the object's origin
stateObject_commit(s, addr) ==
  commitOver(updateTrie(s, addr), updated(updateTrie(s, addr), addr))

\* a commit loop that passes over the dirty objects
commitLoop_skipsObjects(s, order, codes, nodes) ==
  [s |-> s, err |-> FALSE, codes |-> {}, nodes |-> nodes]

\* the loop of Commit over the dirty objects: code and storage are written
RECURSIVE commitLoop(_, _, _, _)
commitLoop(s, order, codes, nodes) ==
  IF order = <<>> THEN [s |-> s, err |-> FALSE, codes |-> codes, nodes |-> nodes]
  ELSE LET a == Head(order)
           obj == live(s, a)
           writes == IsSome(obj.code) /\ obj.dirtyCode
           s1 == IF writes THEN setStateObject(s, [obj EXCEPT !.dirtyCode = FALSE]) ELSE s
           c == stateObject_commit(s1, a)
       IN IF a \notin s.stateObjectsDirty \/ obj.deleted
          THEN commitLoop(s, Tail(order), codes, nodes)
          ELSE IF c.err THEN [s |-> c.s, err |-> TRUE, codes |-> codes, nodes |-> nodes]
          ELSE commitLoop(c.s, Tail(order),
                          IF writes THEN codes \cup {obj.data.codeHash} ELSE codes,
                          nodes \cup c.nodes)

\* snapshot.Tree.Update: a diff layer over the parent layer
snapsUpdate(s, root, parent) ==
  LET base == Layer(parent)
      destructed(a) == IsSome(s.stateObjectsDestruct[a])
      slot(a, k) == IF IsSome(s.storages[a]) /\ IsSome(Get(s.storages[a])[k])
                    THEN Get(Get(s.storages[a])[k])
                    ELSE IF destructed(a) THEN 0 ELSE base.storage[a][k]
      layer == [root |-> root,
                accounts |-> [a \in Addrs |-> IF IsSome(s.accounts[a]) THEN s.accounts[a]
                                              ELSE IF destructed(a) THEN None
                                              ELSE base.accounts[a]],
                storage |-> [a \in Addrs |-> [k \in Slots |-> slot(a, k)]]]
  IN IF ~HasLayer(parent) THEN snaps
     ELSE [snaps EXCEPT !.layers = {l \in @ : l.root # root} \cup {layer}]

\* what a Commit that fails returns: the zero hash, an error
commitFailed(s, err, events) ==
  [s |-> s, db |-> db, snaps |-> snaps, root |-> ZeroHash, err |-> err, events |-> events,
   update |-> None, origins |-> None]

\* convertAccountSet: the addresses of the set (an address is its own hash)
convertAccountSet(set) == {a \in Addrs : IsSome(set[a])}

\* ------------------------------------------------- state-update filter
\* The snapshot handle as pluginStateUpdate sees it: a layer answers from
\* its accounts, every method of pluginSnapshot returns "not implemented".
snapHandle(s) ==
  [kind |-> s.snap,
   accounts |-> IF s.snap = "layer" THEN Layer(s.snapRoot).accounts
                ELSE [a \in Addrs |-> None]]

\* The trie handle as pluginStateUpdate sees it. kind is "unsupported" for
\* a trie type without GetAccountByHash, "committed" for a trie that fails
\* its reads (Commit has committed s.trie before it notifies) and "open"
\* for one that answers from accts.
trieHandle(kind, accts) == [kind |-> kind, accts |-> accts]

\* the trie of a manager when Commit notifies
committedTrie(root) == trieHandle("committed", root.accts)

\* snapshot.Snapshot.AccountRLP and Account
AccountRLP(snap, k) ==
  IF snap.kind = "layer" THEN [err |-> FALSE, acct |-> snap.accounts[k]]
  ELSE [err |-> TRUE, acct |-> None]

\* GetAccountByHash of a trie that has it
GetAccountByHash(trie, k) ==
  IF trie.kind = "open" THEN [err |-> FALSE, acct |-> trie.accts[k]]
  ELSE [err |-> TRUE, acct |-> None]

\* the answer of a check, or ok = FALSE when the snapshot cannot tell
checked(val, ok) == [val |-> val, ok |-> ok]

snapExists(ac, k) ==
  IF AccountRLP(ac.snap, k).err THEN checked(FALSE, FALSE)
  ELSE checked(IsSome(AccountRLP(ac.snap, k).acct), TRUE)

\* a trieExists that aborts on a trie without lookup by account hash
trieExists_aborts(ac, k) ==
  IF ac.trie.kind = "unsupported" THEN [val |-> TRUE, panic |-> TRUE]
  ELSE [val |-> IsSome(GetAccountByHash(ac.trie, k).acct), panic |-> FALSE]

\* trieExists: the error of the lookup is dropped
trieExists(ac, k) ==
  IF ac.trie.kind = "unsupported" THEN [val |-> TRUE, panic |-> FALSE]
  ELSE [val |-> IsSome(GetAccountByHash(ac.trie, k).acct), panic |-> FALSE]

acctChecker_exists(ac, k) ==
  IF snapExists(ac, k).ok THEN [val |-> snapExists(ac, k).val, panic |-> FALSE]
  ELSE trieExists(ac, k)

snapHadStorage(ac, k) ==
  IF AccountRLP(ac.snap, k).err THEN checked(FALSE, FALSE)
  ELSE IF AccountRLP(ac.snap, k).acct = None THEN checked(FALSE, TRUE)
  ELSE checked(IsSome(Get(AccountRLP(ac.snap, k).acct).root), TRUE)

trieHadStorage(ac, k) ==
  IF ac.trie.kind = "unsupported" THEN [val |-> TRUE, panic |-> FALSE]
  ELSE IF GetAccountByHash(ac.trie, k).err THEN [val |-> TRUE, panic |-> FALSE]
  ELSE IF GetAccountByHash(ac.trie, k).acct = None THEN [val |-> FALSE, panic |-> FALSE]
  ELSE [val |-> Get(GetAccountByHash(ac.trie, k).acct).root # EmptyStorageRoot,
        panic |-> FALSE]

acctChecker_hadStorage(ac, k) ==
  IF snapHadStorage(ac, k).ok THEN [val |-> snapHadStorage(ac, k).val, panic |-> FALSE]
  ELSE trieHadStorage(ac, k)

\* snapUpdated: an account the snapshot does not hold is left to the trie
snapUpdated(ac, k, v) ==
  IF AccountRLP(ac.snap, k).err THEN checked(FALSE, FALSE)
  ELSE IF AccountRLP(ac.snap, k).acct = None THEN checked(FALSE, FALSE)
  ELSE checked(Get(AccountRLP(ac.snap, k).acct) # v, TRUE)

\* trieUpdated: the account the trie returns is dereferenced unchecked
trieUpdated(ac, k, v) ==
  IF ac.trie.kind = "unsupported" THEN [val |-> TRUE, panic |-> FALSE]
  ELSE IF GetAccountByHash(ac.trie, k).err THEN [val |-> TRUE, panic |-> FALSE]
  ELSE IF GetAccountByHash(ac.trie, k).acct = None THEN [val |-> FALSE, panic |-> TRUE]
  ELSE [val |-> v # SlimAccountRLP(Get(GetAccountByHash(ac.trie, k).acct)),
        panic |-> FALSE]

acctChecker_updated(ac, k, v) ==
  IF snapUpdated(ac, k, v).ok THEN [val |-> snapUpdated(ac, k, v).val, panic |-> FALSE]
  ELSE trieUpdated(ac, k, v)

\* the check pluginStateUpdate makes for the destruct of k
destructCheck(ac, u, k) ==
  IF IsSome(u.accounts[k]) THEN acctChecker_hadStorage(ac, k) ELSE acctChecker_exists(ac, k)

filteredDestructs(ac, u) == {k \in u.destructs : destructCheck(ac, u, k).val}

filteredAccounts(ac, u) ==
  [k \in Addrs |-> IF IsSome(u.accounts[k]) /\ acctChecker_updated(ac, k, Get(u.accounts[k])).val
                   THEN u.accounts[k] ELSE None]

\* the call panics before any module is called
updatePanics(ac, u) ==
  \/ \E k \in u.destructs : destructCheck(ac, u, k).panic
  \/ \E k \in Addrs : IsSome(u.accounts[k]) /\ acctChecker_updated(ac, k, Get(u.accounts[k])).panic

\* a Commit that notifies whether or not the root has changed
stateUpdate_ignoresRoot(s1, root, codes) ==
  IF s1.snap # "nil"
  THEN Some([blockRoot |-> root,
             parentRoot |-> s1.snapRoot,
             snap |-> snapHandle(s1),
             trie |-> committedTrie(root),
             destructs |-> convertAccountSet(s1.stateObjectsDestruct),
             accounts |-> s1.accounts,
             storages |-> s1.storages,
             codeUpdates |-> codes])
  ELSE None

\* the arguments Commit hands to pluginStateUpdate, if it calls it: only
\* with a snapshot handle whose root is not the new root
stateUpdate(s1, root, codes) ==
  IF s1.snap # "nil" /\ s1.snapRoot # root
  THEN Some([blockRoot |-> root,
             parentRoot |-> s1.snapRoot,
             snap |-> snapHandle(s1),
             trie |-> committedTrie(root),
             destructs |-> convertAccountSet(s1.stateObjectsDestruct),
             accounts |-> s1.accounts,
             storages |-> s1.storages,
             codeUpdates |-> codes])
  ELSE None

\* pluginStateUpdate: what each of the registered modules is called with
\* (the roots, the storage and the code as they came in, the destructs
\* and the accounts filtered); none is called if a check panics
pluginStateUpdate(u, modules) ==
  IF updatePanics([snap |-> u.snap, trie |-> u.trie], u) THEN <<>>
  ELSE [l \in 1..modules |->
          [blockRoot |-> u.blockRoot, parentRoot |-> u.parentRoot,
           destructs |-> filteredDestructs([snap |-> u.snap, trie |-> u.trie], u),
           accounts |-> filteredAccounts([snap |-> u.snap, trie |-> u.trie], u),
           storage |-> u.storages, codeUpdates |-> u.codeUpdates]]

\* the notifications of a Commit, in the order they are made
commitEvents(s1, root, origin) ==
  LET notify == s1.snap # "nil" /\ s1.snapRoot # root
      toTree == notify /\ s1.snap = "layer" /\ snaps.on
  IN (IF notify THEN <<"StateUpdate">> ELSE <<>>)
     \o (IF toTree THEN <<"snaps.Update", "snaps.Cap">> ELSE <<>>)
     \o (IF root # origin THEN <<"TrieDB.Update">> ELSE <<>>)

\* the original values Commit hands to TrieDB().Update, if it calls it
reverseDiff(s1, root, origin) ==
  IF root # origin
  THEN Some([accounts |-> s1.accountsOrigin, storages |-> s1.storagesOrigin])
  ELSE None

\* a Commit that leaves the original values of the block in place
committed_keepsOrigins(s1, root, origin, codes, nodes) ==
  [s |-> [s1 EXCEPT !.snap = "nil",
                    !.originalRoot = IF root # origin THEN root ELSE @,
                    !.accounts = [a \in Addrs |-> None],
                    !.storages = [a \in Addrs |-> None],
                    !.stateObjectsDirty = {},
                    !.stateObjectsDestruct = [a \in Addrs |-> None]],
   db |-> [db EXCEPT !.codes = @ \cup codes,
                     !.tries = IF root # origin THEN @ \cup {root} ELSE @,
                     !.storageTries = IF root # origin THEN @ \cup nodes ELSE @],
   snaps |-> IF s1.snap = "layer" /\ s1.snapRoot # root /\ snaps.on
             THEN snapsUpdate(s1, root, s1.snapRoot) ELSE snaps,
   root |-> root,
   err |-> "",
   events |-> commitEvents(s1, root, origin),
   update |-> stateUpdate(s1, root, codes),
   origins |-> reverseDiff(s1, root, origin)]

\* a Commit that notifies at its very end, from the cleared sets
committed_notifiesLast(s1, root, origin, codes, nodes) ==
  [s |-> [s1 EXCEPT !.snap = "nil",
                    !.originalRoot = IF root # origin THEN root ELSE @,
                    !.accounts = [a \in Addrs |-> None],
                    !.storages = [a \in Addrs |-> None],
                    !.accountsOrigin = [a \in Addrs |-> None],
                    !.storagesOrigin = [a \in Addrs |-> None],
                    !.stateObjectsDirty = {},
                    !.stateObjectsDestruct = [a \in Addrs |-> None]],
   db |-> [db EXCEPT !.codes = @ \cup codes,
                     !.tries = IF root # origin THEN @ \cup {root} ELSE @,
                     !.storageTries = IF root # origin THEN @ \cup nodes ELSE @],
   snaps |-> IF s1.snap = "layer" /\ s1.snapRoot # root /\ snaps.on
             THEN snapsUpdate(s1, root, s1.snapRoot) ELSE snaps,
   root |-> root,
   err |-> "",
   events |-> IF commitEvents(s1, root, origin) # <<>>
                 /\ Head(commitEvents(s1, root, origin)) = "StateUpdate"
              THEN Append(Tail(commitEvents(s1, root, origin)), "StateUpdate")
              ELSE commitEvents(s1, root, origin),
   update |-> stateUpdate([s1 EXCEPT !.accounts = [a \in Addrs |-> None],
                                     !.storages = [a \in Addrs |-> None],
                                     !.stateObjectsDestruct = [a \in Addrs |-> None]],
                          root, {}),
   origins |-> reverseDiff(s1, root, origin)]

\* the end of Commit: the snapshot tree and the trie database are updated
\* and the sets of the block are cleared
committed(s1, root, origin, codes, nodes) ==
  [s |-> [s1 EXCEPT !.snap = "nil",
                    !.originalRoot = IF root # origin THEN root ELSE @,
                    !.accounts = [a \in Addrs |-> None],
                    !.storages = [a \in Addrs |-> None],
                    !.accountsOrigin = [a \in Addrs |-> None],
                    !.storagesOrigin = [a \in Addrs |-> None],
                    !.stateObjectsDirty = {},
                    !.stateObjectsDestruct = [a \in Addrs |-> None]],
   db |-> [db EXCEPT !.codes = @ \cup codes,
                     !.tries = IF root # origin THEN @ \cup {root} ELSE @,
                     !.storageTries = IF root # origin THEN @ \cup nodes ELSE @],
   snaps |-> IF s1.snap = "layer" /\ s1.snapRoot # root /\ snaps.on
             THEN snapsUpdate(s1, root, s1.snapRoot) ELSE snaps,
   root |-> root,
   err |-> "",
   events |-> commitEvents(s1, root, origin),
   update |-> stateUpdate(s1, root, codes),
   origins |-> reverseDiff(s1, root, origin)]

\* a Commit that compares the roots as they are
substituteEmpty_never(h) == h

\* the substitution Commit makes on both roots before it compares them:
\* the empty root for the zero hash
substituteEmpty(h) == IF h = ZeroHash THEN EmptyRootHash ELSE h

\* Commit after the loop over the dirty objects gave cl
commitTries(cl) ==
  IF cl.err THEN commitFailed(cl.s, "can't open storage trie", <<>>)
  ELSE committed(cl.s, substituteEmpty(HashTrie(cl.s.trie)),
                 substituteEmpty(cl.s.originalRoot),
                 cl.codes, cl.nodes)

\* Commit after handleDestruction gave hd
commitObjects(hd, order) ==
  IF hd.err THEN commitFailed(hd.s, "failed to delete storage", <<>>)
  ELSE commitTries(commitLoop(hd.s, order, {}, {}))

\* Commit past its first check: the block goes to the tries, the code
\* store, the snapshot tree and the trie database
commitBlock(s0, deleteEmptyObjects, order) ==
  commitObjects(handleDestruction(IntermediateRoot(s0, deleteEmptyObjects, order).s, order),
                order)

\* a Commit that does not look at the memoized error
Commit_ignoresError(s0, deleteEmptyObjects, order) ==
  commitBlock(s0, deleteEmptyObjects, order)

\* Commit: nothing is done when an error has been memoized
Commit(s0, deleteEmptyObjects, order) ==
  IF s0.dbErr # "" THEN commitFailed(s0, "commit aborted due to earlier error", <<>>)
  ELSE commitBlock(s0, deleteEmptyObjects, order)

\* ------------------------------------------------------------------ Copy
\* the objects Copy takes over: those the journal dirtied, then the
\* pending and the dirty ones, each as a deep copy owned by the copy
copiedObjects(s, m) ==
  [a \in Addrs |->
     IF IsSome(s.stateObjects[a])
        /\ a \in dirties(s.journal) \cup s.stateObjectsPending \cup s.stateObjectsDirty
     THEN Some(deepCopy(live(s, a), m))
     ELSE None]

\* Copy: the block-scoped sets and the refund are carried over; the
\* journal, the revisions, the error, the transaction context and the
\* read and write sets start empty; the origin sets are copied from the
\* copy itself and so are empty
Copy(s, m) ==
  [New(s.originalRoot) EXCEPT
     !.trie = s.trie,
     !.snap = s.snap,
     !.snapRoot = s.snapRoot,
     !.accounts = s.accounts,
     !.storages = s.storages,
     !.stateObjects = copiedObjects(s, m),
     !.stateObjectsPending =
        {a \in Addrs : IsSome(s.stateObjects[a]) /\ a \in dirties(s.journal)}
          \cup s.stateObjectsPending,
     !.stateObjectsDirty =
        {a \in Addrs : IsSome(s.stateObjects[a]) /\ a \in dirties(s.journal)}
          \cup s.stateObjectsDirty,
     !.stateObjectsDestruct = s.stateObjectsDestruct,
     !.refund = s.refund,
     !.mvOn = s.mvOn]

\* ------------------------------------------------------ freezer updates
\* Block numbers are unsigned integers of NumBits bits; ^uint64(0) is MaxNum.
MaxNum == 2^NumBits - 1
Nums == 0..MaxNum
Kinds == {"hashes", "headers"}
NoKinds == [kind \in Kinds |-> None]

\* PluginTrackUpdate: the update of block num gets value under kind
PluginTrackUpdate(fu, num, kind, value) ==
  [fu EXCEPT ![num] = Some([(IF IsSome(@) THEN Get(@) ELSE NoKinds)
                              EXCEPT ![kind] = Some(value)])]

\* the smallest tracked block number, ^uint64(0) if there is none
freezerMin(fu) ==
  IF \A i \in Nums : fu[i] = None THEN MaxNum
  ELSE CHOOSE i \in Nums : IsSome(fu[i]) /\ \A j \in Nums : IsSome(fu[j]) => i <= j

\* what the modules are called with for block i
modifyAncients(fu, i, modules) ==
  IF IsSome(fu[i])
  THEN [l \in 1..modules |-> [module |-> l, num |-> i, update |-> Get(fu[i])]]
  ELSE <<>>

\* the loop of pluginCommitUpdate from block i up to, not including, num
RECURSIVE commitFrom(_, _, _, _)
commitFrom(fu, i, num, modules) ==
  IF i < num
  THEN modifyAncients(fu, i, modules) \o commitFrom(fu, (i + 1) % (MaxNum + 1), num, modules)
  ELSE <<>>

\* the deferred deletes of the blocks the loop went through
commitDeletes(fu, min, num) ==
  [i \in Nums |-> IF min <= i /\ i < num THEN None ELSE fu[i]]

\* the blocks the loop found untracked and warned of
commitWarned(fu, min, num) == {i \in Nums : min <= i /\ i < num /\ fu[i] = None}

\* a pluginCommitUpdate whose loop starts after the smallest tracked block
pluginCommitUpdate_skipsFirst(fu, num, modules) ==
  [fu |-> commitDeletes(fu, freezerMin(fu), num),
   deliveries |-> commitFrom(fu, freezerMin(fu) + 1, num, modules),
   warned |-> commitWarned(fu, freezerMin(fu), num)]

\* pluginCommitUpdate
pluginCommitUpdate(fu, num, modules) ==
  [fu |-> commitDeletes(fu, freezerMin(fu), num),
   deliveries |-> commitFrom(fu, freezerMin(fu), num, modules),
   warned |-> commitWarned(fu, freezerMin(fu), num)]

\* ------------------------------------------------------------ the chain
\* The chain the managers are opened on: account A holds a nonce, a
\* balance and one storage slot; account B does not exist.
GenesisAccount ==
  [nonce |-> 1, balance |-> 1, codeHash |-> EmptyCodeHash, root |-> [k \in Slots |-> 1]]
GenesisTrie == [a \in Addrs |-> IF a = "A" THEN Some(GenesisAccount) ELSE None]
GenesisRoot == HashTrie(GenesisTrie)
GenesisLayer ==
  [root |-> GenesisRoot,
   accounts |-> [a \in Addrs |-> IF a = "A" THEN Some(SlimAccountRLP(GenesisAccount)) ELSE None],
   storage |-> [a \in Addrs |-> IF a = "A" THEN GenesisAccount.root ELSE EmptyStorageRoot]]
GenesisDB(scheme) ==
  [tries |-> {GenesisRoot}, storageTries |-> {GenesisAccount.root}, codes |-> {},
   faulty |-> FALSE, scheme |-> scheme, bulk |-> {},
   freezerUpdates |-> [i \in Nums |-> None]]
GenesisSnaps(on) == [on |-> on, layers |-> IF on THEN {GenesisLayer} ELSE {}]
EmptyMVHashMap == [k \in AllKeys |-> [i \in TxIdxs |-> None]]

\* the iteration orders a Go map over the addresses can produce
Orders == {<<"A", "B">>, <<"B", "A">>}
Amounts == 0..1

\* ------------------------------------------------------------ observers
\* what the getters of manager m answer for every address
reads(S, m) ==
  [a \in Addrs |->
     [exist |-> Exist(S, m, a).val,
      balance |-> GetBalance(S, m, a).val,
      nonce |-> GetNonce(S, m, a).val,
      code |-> GetCode(S, m, a).val,
      state |-> [k \in Slots |-> GetState(S, m, a, k).val]]]

absent == [exist |-> FALSE, balance |-> 0, nonce |-> 0, code |-> 0,
           state |-> [k \in Slots |-> 0]]

balances(S, m) == [a \in Addrs |-> GetBalance(S, m, a).val]

\* what Finalise is about to decide on: per address, whether it is touched
\* with a live object, self-destructed, empty, already marked
finaliseView(s) ==
  [a \in Addrs |->
     LET has == IsSome(s.stateObjects[a])
     IN [touched |-> a \in dirties(s.journal) /\ has,
         selfDestructed |-> has /\ live(s, a).selfDestructed,
         empty |-> has /\ empty(live(s, a)),
         marked |-> IsSome(s.stateObjectsDestruct[a])]]

deletedView(s) ==
  [a \in Addrs |-> IsSome(s.stateObjects[a]) /\ live(s, a).deleted]

\* the calls that journalled in the transaction, as the journal shows them
journalTrail(journal) ==
  [i \in 1..Len(journal) |-> <<journal[i].kind, journal[i].account>>]

\* history kept beside the program state
InitHist ==
  [blockStart |-> [m \in Mgrs |-> GenesisTrie],
   fromNew |-> [m \in Mgrs |-> TRUE],
   lastRoot |-> [m \in Mgrs |-> None],
   revs |-> [m \in Mgrs |-> <<>>],
   ops |-> [m \in Mgrs |-> 0],
   txs |-> [m \in Mgrs |-> 0],
   commits |-> [m \in Mgrs |-> 0],
   flushed |-> [m \in Mgrs |-> None],
   quiet |-> [m \in Mgrs |-> TRUE],
   issued |-> [m \in Mgrs |-> {}],
   reverted |-> [m \in Mgrs |-> {}],
   old |-> [m \in Mgrs |-> {}],
   oldDone |-> [m \in Mgrs |-> {}],
   copies |-> [m \in Mgrs |-> 0],
   opened |-> [m \in Mgrs |-> GenesisRoot]]

\* a mutation through the API: the root is stale; a bracket that saw
\* anything but balance calls is no longer a balance bracket
noteMutation(h, m, balanceOnly) ==
  [h EXCEPT !.lastRoot[m] = None,
            !.quiet[m] = FALSE,
            !.ops[m] = @ + 1,
            !.revs[m] = IF balanceOnly THEN @
                        ELSE [i \in DOMAIN @ |-> [@[i] EXCEPT !.pure = FALSE]]]

\* a transaction boundary: the identifiers handed out so far are old
noteBoundary(h, m) ==
  [h EXCEPT !.revs[m] = <<>>, !.txs[m] = @ + 1,
            !.old[m] = h.issued[m], !.oldDone[m] = h.issued[m]]

\* where the caller holds an identifier in its list of outstanding
\* revisions (one past the end when it does not)
histIndex(revs, revid) ==
  IF \E i \in 1..Len(revs) : revs[i].id = revid
  THEN CHOOSE i \in 1..Len(revs) : revs[i].id = revid
  ELSE Len(revs) + 1

\* the identifiers of the outstanding revisions from position idx on
idsFrom(revs, idx) == {revs[i].id : i \in idx..Len(revs)}

\* a manager may be called: its attempt has not been aborted and the
\* transaction has room left
CanCall(m) ==
  /\ Len(sdb[m].journal) < MaxJournal
  /\ hist.ops[m] < MaxOps
  /\ hist.txs[m] < MaxTxs
  /\ sdb[m].mvOn => sdb[m].dep < 0

\* -------------------------------------------------------------- actions
\* a setter call of manager m: out is the outcome of the call
setterCall(m, out, balanceOnly) ==
  /\ CanCall(m)
  /\ sdb' = out.S
  /\ ret' = [op |-> "setter", m |-> m, panic |-> out.panic]
  /\ hist' = noteMutation(hist, m, balanceOnly)
  /\ UNCHANGED <<mvHashmap, db, snaps>>

CallAddBalance(m, addr, amount) ==
  /\ GetBalance(sdb, m, addr).val + amount <= MaxBal
  /\ setterCall(m, AddBalance(sdb, m, addr, amount), TRUE)

CallSubBalance(m, addr, amount) ==
  /\ amount <= GetBalance(sdb, m, addr).val
  /\ setterCall(m, SubBalance(sdb, m, addr, amount), TRUE)

CallSetBalance(m, addr, amount) ==
  setterCall(m, SetBalance(sdb, m, addr, amount), TRUE)

CallSetNonce(m, addr, nonce) ==
  setterCall(m, SetNonce(sdb, m, addr, nonce), FALSE)

CallSetCode(m, addr, code) ==
  setterCall(m, SetCode(sdb, m, addr, code), FALSE)

CallSetState(m, addr, key, value) ==
  setterCall(m, SetState(sdb, m, addr, key, value), FALSE)

CallSelfDestruct(m, addr) ==
  setterCall(m, SelfDestruct(sdb, m, addr), FALSE)

CallCreateAccount(m, addr) ==
  setterCall(m, CreateAccount(sdb, m, addr), FALSE)

\* Snapshot: the balances read just before the call are remembered
CallSnapshot(m) ==
  /\ CanCall(m)
  /\ sdb[m].nextRevisionId < MaxRevisions
  /\ sdb' = [sdb EXCEPT ![m] = Snapshot(@)]
  /\ ret' = [op |-> "Snapshot", m |-> m, id |-> sdb[m].nextRevisionId,
             seen |-> hist.issued[m]]
  /\ hist' = [hist EXCEPT !.revs[m] = Append(@, [id |-> sdb[m].nextRevisionId,
                                                   balances |-> balances(sdb, m),
                                                   journalLen |-> Len(sdb[m].journal),
                                                   pure |-> TRUE]),
                          !.issued[m] = @ \cup {sdb[m].nextRevisionId}]
  /\ UNCHANGED <<mvHashmap, db, snaps>>

\* what a RevertToSnapshot call leaves: S1 holds the managers after it,
\* idx is where the caller holds the identifier
revertCall(m, revid, idx, panics, S1) ==
  /\ sdb' = S1
  /\ ret' = [op |-> "RevertToSnapshot", m |-> m, id |-> revid,
             panic |-> panics,
             never |-> revid \notin hist.issued[m],
             reverted |-> revid \in hist.reverted[m],
             old |-> revid \in hist.old[m],
             oldDone |-> revid \in hist.oldDone[m],
             recorded |-> IF idx <= Len(hist.revs[m]) THEN hist.revs[m][idx].journalLen ELSE -1,
             before |-> IF idx <= Len(hist.revs[m]) THEN hist.revs[m][idx].balances
                        ELSE balances(sdb, m),
             pure |-> idx <= Len(hist.revs[m]) /\ hist.revs[m][idx].pure,
             undone |-> Len(sdb[m].journal) - Len(S1[m].journal),
             dirty |-> balances(sdb, m),
             after |-> balances(S1, m)]
  /\ hist' = IF panics THEN hist
             ELSE [hist EXCEPT !.revs[m] = SubSeq(@, 1, idx - 1),
                               !.reverted[m] = @ \cup idsFrom(hist.revs[m], idx),
                               !.lastRoot[m] = None]
  /\ UNCHANGED <<mvHashmap, db, snaps>>

\* RevertToSnapshot of any identifier: it panics on one that is not valid
CallRevertToSnapshot(m, revid) ==
  revertCall(m, revid, histIndex(hist.revs[m], revid), revertPanics(sdb[m], revid),
             [sdb EXCEPT ![m] = RevertToSnapshot(@, revid)])

\* what a Finalise call leaves: s1 is the manager after it
finaliseCall(m, deleteEmptyObjects, s1) ==
  /\ sdb' = [sdb EXCEPT ![m] = s1]
  /\ ret' = [op |-> "Finalise", m |-> m, deleteEmptyObjects |-> deleteEmptyObjects,
             view |-> finaliseView(sdb[m]),
             trail |-> journalTrail(sdb[m].journal),
             deletedBefore |-> deletedView(sdb[m]),
             deleted |-> deletedView(s1)]
  /\ hist' = noteBoundary(hist, m)
  /\ UNCHANGED <<mvHashmap, db, snaps>>

\* Finalise at the end of a transaction
CallFinalise(m, deleteEmptyObjects, order) ==
  /\ hist.txs[m] < MaxTxs
  /\ finaliseCall(m, deleteEmptyObjects, Finalise(sdb[m], deleteEmptyObjects, order))

\* what an IntermediateRoot call leaves: ir is what it returned
intermediateRootCall(m, deleteEmptyObjects, ir) ==
  /\ sdb' = [sdb EXCEPT ![m] = ir.s]
  /\ ret' = [op |-> "IntermediateRoot", m |-> m,
             deleteEmptyObjects |-> deleteEmptyObjects,
             view |-> finaliseView(sdb[m]),
             deletedBefore |-> deletedView(sdb[m]),
             deleted |-> deletedView(ir.s),
             previous |-> hist.lastRoot[m],
             root |-> ir.root]
  /\ hist' = [noteBoundary(hist, m) EXCEPT !.lastRoot[m] = Some(ir.root)]
  /\ UNCHANGED <<mvHashmap, db, snaps>>

\* IntermediateRoot between transactions
CallIntermediateRoot(m, deleteEmptyObjects, order) ==
  /\ hist.txs[m] < MaxTxs
  /\ intermediateRootCall(m, deleteEmptyObjects,
                          IntermediateRoot(sdb[m], deleteEmptyObjects, order))

\* the sets of the block as a manager holds them, and the code its dirty
\* objects carry
blockSets(s) ==
  [destructs |-> {a \in Addrs : IsSome(s.stateObjectsDestruct[a])},
   accounts |-> s.accounts,
   storages |-> s.storages,
   accountsOrigin |-> s.accountsOrigin,
   storagesOrigin |-> s.storagesOrigin,
   codeUpdates |-> {live(s, a).data.codeHash :
                      a \in {b \in s.stateObjectsDirty :
                               /\ IsSome(s.stateObjects[b])
                               /\ ~live(s, b).deleted
                               /\ IsSome(live(s, b).code)
                               /\ live(s, b).dirtyCode}}]

\* what a Commit call leaves: c is what it returned, block the sets of
\* the block when its root was computed, modules the listeners registered
commitSeen(m, s0, c, block, hd, deletions, modules) ==
  /\ sdb' = [sdb EXCEPT ![m] = c.s]
  /\ db' = c.db
  /\ snaps' = c.snaps
  /\ ret' = [op |-> "Commit", m |-> m, root |-> c.root, err |-> c.err,
             events |-> c.events,
             update |-> c.update,
             origins |-> c.origins,
             start |-> hist.blockStart[m],
             destruction |-> [err |-> hd.err, incomplete |-> hd.incomplete,
                              deletions |-> deletions,
                              markers |-> hd.s.stateObjectsDestruct,
                              accountsOrigin |-> hd.s.accountsOrigin,
                              storagesOrigin |-> hd.s.storagesOrigin],
             deliveries |-> IF IsSome(c.update)
                            THEN pluginStateUpdate(Get(c.update), modules) ELSE <<>>,
             modules |-> modules,
             block |-> block,
             fresh |-> hist.fromNew[m],
             faulty |-> db.faulty,
             mutated |-> s0.stateObjectsDirty \cup dirties(s0.journal),
             reads |-> reads(sdb, m),
             view |-> finaliseView(s0),
             deletedBefore |-> deletedView(s0),
             deleted |-> deletedView(c.s),
             managerBefore |-> s0,
             dbBefore |-> db,
             snapsBefore |-> snaps]
  /\ hist' = [hist EXCEPT !.commits[m] = @ + 1,
                          !.revs[m] = IF s0.dbErr = "" THEN <<>> ELSE @,
                          !.old[m] = hist.issued[m],
                          !.oldDone[m] = IF s0.dbErr = "" THEN hist.issued[m] ELSE @,
                          !.fromNew[m] = IF c.err = "" THEN FALSE ELSE @,
                          !.blockStart[m] = IF c.err = "" THEN c.s.trie ELSE @]
  /\ UNCHANGED mvHashmap

\* what deleteStorage returns for every account handleDestruction asks it
\* about, s being the manager when handleDestruction is entered
deletionsOf(s) ==
  [a \in Addrs |->
     IF /\ IsSome(s.stateObjectsDestruct[a])
        /\ IsSome(Get(s.stateObjectsDestruct[a]))
        /\ Get(Get(s.stateObjectsDestruct[a])).root # EmptyStorageRoot
     THEN Some(deleteStorage(s, a, Get(Get(s.stateObjectsDestruct[a])).root))
     ELSE None]

\* ir is the manager after the IntermediateRoot Commit begins with
commitCall(m, s0, c, ir, order, modules) ==
  commitSeen(m, s0, c, blockSets(ir), handleDestruction(ir, order), deletionsOf(ir),
             modules)

\* Commit at the end of a block
CallCommit(m, deleteEmptyObjects, order) ==
  /\ hist.commits[m] < MaxCommits
  /\ commitCall(m, sdb[m], Commit(sdb[m], deleteEmptyObjects, order),
                IntermediateRoot(sdb[m], deleteEmptyObjects, order).s, order, 1)

\* Commit with some number of state-update listeners registered
CallCommitModules(m, deleteEmptyObjects, order, modules) ==
  /\ hist.commits[m] < MaxCommits
  /\ commitCall(m, sdb[m], Commit(sdb[m], deleteEmptyObjects, order),
                IntermediateRoot(sdb[m], deleteEmptyObjects, order).s, order, modules)

\* New: a manager is constructed on a root the database holds
CallNew(m, root) ==
  /\ hist.commits[m] > 0
  /\ CanOpenTrie(root)
  /\ sdb[m] # New(root)
  /\ sdb' = [sdb EXCEPT ![m] = New(root)]
  /\ ret' = [op |-> "New", m |-> m, root |-> root]
  /\ hist' = [hist EXCEPT !.blockStart[m] = root.accts,
                          !.opened[m] = root,
                          !.fromNew[m] = TRUE,
                          !.lastRoot[m] = None,
                          !.revs[m] = <<>>,
                          !.issued[m] = {},
                          !.reverted[m] = {},
                          !.old[m] = {},
                          !.oldDone[m] = {},
                          !.txs[m] = 0]
  /\ UNCHANGED <<mvHashmap, db, snaps>>

\* the database starts to fail its reads, or recovers
Fault ==
  /\ db' = [db EXCEPT !.faulty = ~@]
  /\ ret' = [op |-> "Fault"]
  /\ UNCHANGED <<sdb, mvHashmap, snaps, hist>>

\* ------------------------------------------------- two managers in step
\* the same setter call made on both managers
pairCall(out1, out2) ==
  /\ CanCall(1)
  /\ CanCall(2)
  /\ sdb' = [sdb EXCEPT ![1] = out1.S[1], ![2] = out2.S[2]]
  /\ ret' = [op |-> "setter", m |-> 0, panic |-> FALSE]
  /\ hist' = noteMutation(noteMutation(hist, 1, FALSE), 2, FALSE)
  /\ UNCHANGED <<mvHashmap, db, snaps>>

PairAddBalance(addr, amount) ==
  pairCall(AddBalance(sdb, 1, addr, amount), AddBalance(sdb, 2, addr, amount))

PairSetNonce(addr, nonce) ==
  pairCall(SetNonce(sdb, 1, addr, nonce), SetNonce(sdb, 2, addr, nonce))

PairSetState(addr, key, value) ==
  pairCall(SetState(sdb, 1, addr, key, value), SetState(sdb, 2, addr, key, value))

PairSelfDestruct(addr) ==
  pairCall(SelfDestruct(sdb, 1, addr), SelfDestruct(sdb, 2, addr))

\* Finalise on both; each map iteration takes an order of its own
PairFinalise(deleteEmptyObjects, o1, o2) ==
  /\ hist.txs[1] < MaxTxs
  /\ sdb' = [sdb EXCEPT ![1] = Finalise(@, deleteEmptyObjects, o1),
                        ![2] = Finalise(@, deleteEmptyObjects, o2)]
  /\ ret' = [op |-> "PairFinalise"]
  /\ hist' = noteBoundary(noteBoundary(hist, 1), 2)
  /\ UNCHANGED <<mvHashmap, db, snaps>>

\* what IntermediateRoot on both leaves: ir1 and ir2 are what it returned
pairRootCall(o1, o2, pending, ir1, ir2) ==
  /\ sdb' = [sdb EXCEPT ![1] = ir1.s, ![2] = ir2.s]
  /\ ret' = [op |-> "PairIntermediateRoot",
             orders |-> <<o1, o2>>,
             pending |-> pending,
             roots |-> <<ir1.root, ir2.root>>]
  /\ hist' = noteBoundary(noteBoundary(hist, 1), 2)
  /\ UNCHANGED <<mvHashmap, db, snaps>>

\* IntermediateRoot on both
PairIntermediateRoot(deleteEmptyObjects, o1, o2) ==
  /\ hist.txs[1] < MaxTxs
  /\ pairRootCall(o1, o2,
                  Finalise(sdb[1], deleteEmptyObjects, o1).stateObjectsPending,
                  IntermediateRoot(sdb[1], deleteEmptyObjects, o1),
                  IntermediateRoot(sdb[2], deleteEmptyObjects, o2))

\* --------------------------------------------- parallel execution calls
\* the first cell MVRead gets from the map for key k of manager m, if it
\* consults the map at all: the address key's unless the manager wrote it
consultedOver(s, k, ak, ares, kres, g) ==
  IF IsSome(s.writeMap[k]) THEN None
  ELSE IF s.writeMap[ak] = None /\ ares.status = MVReadResultDependency
    THEN Some([key |-> ak, res |-> ares])
  ELSE IF g.val = None THEN None
  ELSE Some([key |-> k, res |-> kres])

consulted(S, m, k) ==
  consultedOver(S[m], k, NewAddressKey(k.addr),
                MVHashMapRead(NewAddressKey(k.addr), S[m].txIndex),
                MVHashMapRead(k, S[m].txIndex),
                getStateObject(S, m, k.addr))

\* the balance the objects of manager m hold for an address
held(S, m, addr) ==
  IF IsSome(S[m].stateObjects[addr]) /\ ~live(S[m], addr).deleted
  THEN live(S[m], addr).data.balance
  ELSE 0

preBlockBalance(addr) ==
  IF GenesisTrie[addr] = None THEN 0 ELSE Get(GenesisTrie[addr]).balance

\* what a GetBalance call leaves: out is its outcome, c the cell of the key
getBalanceCall(m, addr, k, ak, out, c) ==
  /\ sdb' = out.S
  /\ ret' = [op |-> "GetBalance", m |-> m, addr |-> addr, key |-> k,
             val |-> out.val, panic |-> out.panic,
             own |-> IsSome(sdb[m].writeMap[k]) \/ IsSome(sdb[m].writeMap[ak]),
             cell |-> c.status,
             addrCell |-> MVHashMapRead(ak, sdb[m].txIndex).status,
             writerHolds |-> held(sdb, 1, addr),
             writerWrote |-> m # 1 /\ IsSome(sdb[1].writeMap[k]),
             lower |-> IF m = 1 THEN None ELSE hist.flushed[1],
             writerQuiet |-> hist.quiet[1],
             preBlock |-> preBlockBalance(addr),
             consulted |-> consulted(sdb, m, k),
             readBefore |-> sdb[m].readMap,
             local |-> GetBalance([sdb EXCEPT ![m].mvOn = FALSE], m, addr).val]
  /\ UNCHANGED <<mvHashmap, db, snaps, hist>>

\* GetBalance by a manager that executes a transaction of the block
CallGetBalance(m, addr) ==
  /\ sdb[m].mvOn
  /\ sdb[m].dep < 0
  /\ getBalanceCall(m, addr, NewSubpathKey(addr, BalancePath), NewAddressKey(addr),
                    GetBalance(sdb, m, addr),
                    MVHashMapRead(NewSubpathKey(addr, BalancePath), sdb[m].txIndex))

\* FlushMVWriteSet
CallFlushMVWriteSet(m) ==
  /\ sdb[m].mvOn
  /\ sdb[m].dep < 0
  /\ mvHashmap' = FlushMVWriteSet(mvHashmap, sdb[m], m)
  /\ mvHashmap' # mvHashmap \/ ~hist.quiet[m]
  /\ ret' = [op |-> "FlushMVWriteSet", m |-> m]
  /\ hist' = [hist EXCEPT !.flushed[m] =
                            Some([keys |-> {k \in AllKeys : IsSome(sdb[m].writeMap[k])},
                                  balance |-> [a \in Addrs |-> held(sdb, m, a)]]),
                          !.quiet[m] = TRUE]
  /\ UNCHANGED <<sdb, db, snaps>>

\* the scheduler marks what a transaction has flushed as estimates, as it
\* does before the transaction is executed again
CallMarkEstimate(txIdx) ==
  /\ \E k \in AllKeys : IsSome(mvHashmap[k][txIdx]) /\ Get(mvHashmap[k][txIdx]).flag = "done"
  /\ mvHashmap' = MarkEstimate(mvHashmap, txIdx)
  /\ ret' = [op |-> "MarkEstimate", txIdx |-> txIdx]
  /\ UNCHANGED <<sdb, db, snaps, hist>>

\* AddRefund and SubRefund
CallAddRefund(m, gas) ==
  /\ CanCall(m)
  /\ sdb[m].refund + gas <= MaxRefund
  /\ sdb' = [sdb EXCEPT ![m] = AddRefund(@, gas)]
  /\ ret' = [op |-> "AddRefund", m |-> m, panic |-> FALSE]
  /\ hist' = noteMutation(hist, m, FALSE)
  /\ UNCHANGED <<mvHashmap, db, snaps>>

CallSubRefund(m, gas) ==
  /\ CanCall(m)
  /\ sdb' = [sdb EXCEPT ![m] = SubRefund(@, gas).s]
  /\ ret' = [op |-> "SubRefund", m |-> m, panic |-> SubRefund(sdb[m], gas).panic]
  /\ hist' = noteMutation(hist, m, FALSE)
  /\ UNCHANGED <<mvHashmap, db, snaps>>

\* Copy: manager to becomes a copy of manager from
CallCopy(from, to) ==
  /\ hist.copies[to] < MaxCopies
  /\ sdb' = [sdb EXCEPT ![to] = Copy(sdb[from], to)]
  /\ ret' = [op |-> "Copy", m |-> to, from |-> from]
  /\ hist' = [hist EXCEPT !.copies[to] = @ + 1,
                          !.blockStart[to] = hist.blockStart[from],
                          !.fromNew[to] = hist.fromNew[from],
                          !.opened[to] = hist.opened[from],
                          !.lastRoot[to] = None,
                          !.revs[to] = <<>>,
                          !.issued[to] = {},
                          !.reverted[to] = {},
                          !.old[to] = {},
                          !.oldDone[to] = {},
                          !.ops[to] = hist.ops[from],
                          !.txs[to] = hist.txs[from]]
  /\ UNCHANGED <<mvHashmap, db, snaps>>

\* a mutator call of manager m, with what was called remembered
mutatorCall(m, name, addr, out) ==
  /\ CanCall(m)
  /\ sdb' = out.S
  /\ ret' = [op |-> "mutator", name |-> name, m |-> m, addr |-> addr, panic |-> out.panic]
  /\ hist' = noteMutation(hist, m, FALSE)
  /\ UNCHANGED <<mvHashmap, db, snaps>>

MutAddBalance(m, addr, amount) ==
  /\ GetBalance(sdb, m, addr).val + amount <= MaxBal
  /\ mutatorCall(m, "AddBalance", addr, AddBalance(sdb, m, addr, amount))

MutSubBalance(m, addr, amount) ==
  /\ amount <= GetBalance(sdb, m, addr).val
  /\ mutatorCall(m, "SubBalance", addr, SubBalance(sdb, m, addr, amount))

MutSetBalance(m, addr, amount) ==
  mutatorCall(m, "SetBalance", addr, SetBalance(sdb, m, addr, amount))

MutSetNonce(m, addr, nonce) ==
  mutatorCall(m, "SetNonce", addr, SetNonce(sdb, m, addr, nonce))

MutSetCode(m, addr, code) ==
  mutatorCall(m, "SetCode", addr, SetCode(sdb, m, addr, code))

MutSetState(m, addr, key, value) ==
  mutatorCall(m, "SetState", addr, SetState(sdb, m, addr, key, value))

MutSelfDestruct(m, addr) ==
  mutatorCall(m, "SelfDestruct", addr, SelfDestruct(sdb, m, addr))

\* a mutator call of manager m, with what the getters answered for the
\* address before and after it, and whether the manager had been through
\* a Commit
observedCall(m, c, addr, out) ==
  /\ CanCall(m)
  /\ sdb' = out.S
  /\ ret' = [op |-> "mutator", name |-> c.name, arg |-> c.arg, m |-> m, addr |-> addr,
             panic |-> out.panic,
             committed |-> ~hist.fromNew[m],
             before |-> reads(sdb, m)[addr],
             after |-> reads(out.S, m)[addr]]
  /\ hist' = noteMutation(hist, m, FALSE)
  /\ UNCHANGED <<mvHashmap, db, snaps>>

ObsSetBalance(m, addr, amount) ==
  observedCall(m, [name |-> "SetBalance", arg |-> amount], addr,
               SetBalance(sdb, m, addr, amount))

ObsSetNonce(m, addr, nonce) ==
  observedCall(m, [name |-> "SetNonce", arg |-> nonce], addr, SetNonce(sdb, m, addr, nonce))

ObsSetCode(m, addr, code) ==
  observedCall(m, [name |-> "SetCode", arg |-> code], addr, SetCode(sdb, m, addr, code))

ObsSetState(m, addr, key, value) ==
  observedCall(m, [name |-> "SetState", arg |-> value], addr,
               SetState(sdb, m, addr, key, value))

ObsSelfDestruct(m, addr) ==
  observedCall(m, [name |-> "SelfDestruct", arg |-> 0], addr, SelfDestruct(sdb, m, addr))

ObsCreateAccount(m, addr) ==
  observedCall(m, [name |-> "CreateAccount", arg |-> 0], addr, CreateAccount(sdb, m, addr))

\* ------------------------------------------------------- specifications
\* One manager in the last transaction of a block: the journal and its
\* snapshots.  The transaction before it did nothing, destructed A, or
\* touched B.
InitJournal ==
  /\ db = GenesisDB("hash")
  /\ snaps = GenesisSnaps(FALSE)
  /\ mvHashmap = EmptyMVHashMap
  /\ \E before \in {"nothing", "destructed", "touched"} :
       LET S0 == [m \in Mgrs |-> New(GenesisRoot)]
           S1 == CASE before = "destructed" -> SelfDestruct(S0, 1, "A").S
                   [] before = "touched" -> AddBalance(S0, 1, "B", 0).S
                   [] OTHER -> S0
       IN sdb = [S1 EXCEPT ![1] = Finalise(@, TRUE, <<"A", "B">>)]
  /\ ret = [op |-> "Finalise"]
  /\ hist = [InitHist EXCEPT !.txs[1] = MaxTxs - 1]

NextJournal ==
  \/ \E a \in Addrs, x \in Amounts : CallAddBalance(1, a, x)
  \/ \E a \in Addrs, x \in Amounts : CallSubBalance(1, a, x)
  \/ \E a \in Addrs, x \in 0..MaxBal : CallSetBalance(1, a, x)
  \/ \E a \in Addrs : CallSelfDestruct(1, a)
  \/ \E a \in Addrs : CallCreateAccount(1, a)
  \/ CallSnapshot(1)
  \/ \E id \in 0..MaxRevisions : CallRevertToSnapshot(1, id)
  \/ \E del \in BOOLEAN, o \in Orders : CallFinalise(1, del, o)

SpecJournal == InitJournal /\ [][NextJournal]_vars

\* One manager from New on: transactions, roots, a commit, and what the
\* manager does when it is used again after the commit.
Init ==
  /\ db = GenesisDB("path")
  /\ snaps = GenesisSnaps(TRUE)
  /\ mvHashmap = EmptyMVHashMap
  /\ sdb = [m \in Mgrs |-> New(GenesisRoot)]
  /\ ret = [op |-> "New"]
  /\ hist = InitHist

Next ==
  \/ \E a \in Addrs, x \in Amounts : CallAddBalance(1, a, x)
  \/ \E a \in Addrs : CallSubBalance(1, a, 1)
  \/ \E a \in Addrs : CallSetNonce(1, a, 0)
  \/ \E a \in Addrs : CallSelfDestruct(1, a)
  \/ \E a \in Addrs : CallCreateAccount(1, a)
  \/ \E del \in BOOLEAN, o \in Orders : CallFinalise(1, del, o)
  \/ \E del \in BOOLEAN, o \in Orders : CallIntermediateRoot(1, del, o)
  \/ \E del \in BOOLEAN, o \in Orders : CallCommit(1, del, o)

Spec == Init /\ [][Next]_vars

\* One manager and its database: blocks are committed, under either trie
\* scheme, with or without a snapshot tree, while the database may fail
\* its reads; managers are opened again on committed roots.
InitCommit ==
  /\ \E on \in BOOLEAN :
       /\ db = GenesisDB(IF on THEN "path" ELSE "hash")
       /\ snaps = GenesisSnaps(on)
  /\ mvHashmap = EmptyMVHashMap
  /\ sdb = [m \in Mgrs |-> New(GenesisRoot)]
  /\ ret = [op |-> "New"]
  /\ hist = InitHist

NextCommit ==
  \/ \E a \in Addrs : CallAddBalance(1, a, 1)
  \/ \E a \in Addrs : CallSetNonce(1, a, MaxNonce)
  \/ \E a \in Addrs : CallSetCode(1, a, MaxCode)
  \/ \E a \in Addrs, k \in Slots, v \in 0..MaxVal : CallSetState(1, a, k, v)
  \/ \E a \in Addrs : CallSelfDestruct(1, a)
  \/ \E del \in BOOLEAN, o \in Orders : CallFinalise(1, del, o)
  \/ \E del \in BOOLEAN, o \in Orders : CallCommit(1, del, o)
  \/ \E r \in db.tries : CallNew(1, r)

SpecCommit == InitCommit /\ [][NextCommit]_vars

\* One manager on a database that may start to fail its reads, and
\* recover: errors are memoized, the block is committed or refused.
NextFault ==
  \/ \E a \in Addrs : CallAddBalance(1, a, 1)
  \/ \E a \in Addrs, k \in Slots : CallSetState(1, a, k, 0)
  \/ \E a \in Addrs : CallSelfDestruct(1, a)
  \/ \E del \in BOOLEAN, o \in Orders : CallFinalise(1, del, o)
  \/ \E del \in BOOLEAN, o \in Orders : CallCommit(1, del, o)
  \/ Fault

SpecFault == InitCommit /\ [][NextFault]_vars

\* Two managers made from the same root and handed the same calls, each
\* iterating its maps in an order of its own.
NextPair ==
  \/ \E a \in Addrs, x \in Amounts : PairAddBalance(a, x)
  \/ \E a \in Addrs : PairSetNonce(a, 0)
  \/ \E a \in Addrs, k \in Slots, v \in 0..MaxVal : PairSetState(a, k, v)
  \/ \E a \in Addrs : PairSelfDestruct(a)
  \/ \E del \in BOOLEAN, o1 \in Orders, o2 \in Orders : PairFinalise(del, o1, o2)
  \/ \E del \in BOOLEAN, o1 \in Orders, o2 \in Orders : PairIntermediateRoot(del, o1, o2)

SpecPair == InitCommit /\ [][NextPair]_vars

\* Two managers execute transactions 0 and 1 of a block in parallel over
\* one multi-version map.
InitMV ==
  /\ db = GenesisDB("path")
  /\ snaps = GenesisSnaps(FALSE)
  /\ mvHashmap = EmptyMVHashMap
  /\ sdb = [m \in Mgrs |-> [NewWithMVHashmap(GenesisRoot) EXCEPT !.txIndex = m - 1]]
  /\ ret = [op |-> "New"]
  /\ hist = InitHist

NextMV ==
  \/ \E m \in Mgrs, x \in {0, MaxBal} : CallSetBalance(m, "A", x)
  \/ CallSetNonce(1, "A", MaxNonce)
  \/ \E m \in Mgrs : CallGetBalance(m, "A")
  \/ \E m \in Mgrs : CallFlushMVWriteSet(m)
  \/ \E i \in TxIdxs : CallMarkEstimate(i)

SpecMV == InitMV /\ [][NextMV]_vars

\* Two managers execute transactions 0 and 1 of a block in parallel; the
\* second one takes snapshots, creates accounts and reverts.
NextAlias ==
  \/ MutSetBalance(1, "A", 0)
  \/ MutSetBalance(2, "A", MaxBal)
  \/ MutAddBalance(2, "A", 1)
  \/ MutSubBalance(2, "A", 1)
  \/ MutSetNonce(2, "A", MaxNonce)
  \/ MutSetCode(2, "A", MaxCode)
  \/ MutSetState(2, "A", "k", 0)
  \/ MutSelfDestruct(2, "A")
  \/ CallCreateAccount(2, "A")
  \/ CallSnapshot(2)
  \/ CallRevertToSnapshot(2, 0)
  \/ CallFlushMVWriteSet(1)

SpecAlias == InitMV /\ [][NextAlias]_vars

\* One manager over several transactions of a block: snapshots are taken
\* and reverted to, valid or not, across Finalise.
NextRevisions ==
  \/ \E x \in {0, MaxBal} : CallSetBalance(1, "A", x)
  \/ CallAddBalance(1, "B", 0)
  \/ CallSnapshot(1)
  \/ \E id \in 0..MaxRevisions : CallRevertToSnapshot(1, id)
  \/ \E del \in BOOLEAN : CallFinalise(1, del, <<"A", "B">>)

SpecRevisions == Init /\ [][NextRevisions]_vars

\* One manager whose snapshots are reverted to after Finalise,
\* IntermediateRoot and Commit, on a database that may fail its reads.
NextStale ==
  \/ CallSetBalance(1, "B", MaxBal)
  \/ CallSnapshot(1)
  \/ \E id \in 0..MaxRevisions : CallRevertToSnapshot(1, id)
  \/ CallFinalise(1, TRUE, <<"A", "B">>)
  \/ CallIntermediateRoot(1, TRUE, <<"A", "B">>)
  \/ CallCommit(1, TRUE, <<"A", "B">>)
  \/ Fault

SpecStale == Init /\ [][NextStale]_vars

\* A manager and a copy of it: refunds are added and subtracted on the
\* manager, it is copied in or between transactions, and transactions
\* are finalised on both.
NextRefund ==
  \/ CallAddRefund(1, 1)
  \/ CallSubRefund(1, 1)
  \/ CallSetBalance(1, "A", MaxBal)
  \/ CallCopy(1, 2)
  \/ CallFinalise(1, TRUE, <<"A", "B">>)
  \/ hist.copies[2] > 0 /\ CallAddRefund(2, 1)
  \/ hist.copies[2] > 0 /\ CallFinalise(2, TRUE, <<"A", "B">>)

SpecRefund == Init /\ [][NextRefund]_vars

\* A manager, a copy of it and the state-update listeners: blocks that
\* change the root and blocks that do not are committed, on the manager
\* and on the copy, with zero or more listeners registered.
NextNotify ==
  \/ \E a \in Addrs : CallAddBalance(1, a, 1)
  \/ \E a \in Addrs : CallSubBalance(1, a, 1)
  \/ CallCopy(1, 2)
  \/ hist.copies[2] > 0 /\ CallAddBalance(2, "B", 1)
  \/ \E m \in Mgrs, del \in BOOLEAN, n \in 0..MaxModules :
       CallCommitModules(m, del, <<"A", "B">>, n)

SpecNotify == InitCommit /\ [][NextNotify]_vars

\* A manager opened on the empty state, named by the zero hash or by the
\* empty root: accounts come and go, blocks are committed.
InitEmpty ==
  /\ \E on \in BOOLEAN :
       /\ db = GenesisDB(IF on THEN "path" ELSE "hash")
       /\ snaps = GenesisSnaps(on)
  /\ mvHashmap = EmptyMVHashMap
  /\ \E root \in {ZeroHash, EmptyRootHash} :
       /\ sdb = [m \in Mgrs |-> New(root)]
       /\ hist = [InitHist EXCEPT !.blockStart = [m \in Mgrs |-> root.accts],
                                  !.opened = [m \in Mgrs |-> root]]
  /\ ret = [op |-> "New"]

NextEmpty ==
  \/ \E a \in Addrs, x \in Amounts : CallAddBalance(1, a, x)
  \/ \E a \in Addrs : CallSubBalance(1, a, 1)
  \/ \E a \in Addrs : CallSetNonce(1, a, MaxNonce)
  \/ \E a \in Addrs : CallSelfDestruct(1, a)
  \/ \E del \in BOOLEAN, o \in Orders : CallFinalise(1, del, o)
  \/ \E del \in BOOLEAN, o \in Orders : CallCommit(1, del, o)

SpecEmpty == InitEmpty /\ [][NextEmpty]_vars

\* One manager through its lifecycle and past it: mutations, Finalise,
\* IntermediateRoot, Commit, and the same calls made again on the
\* committed manager.
NextTerminal ==
  \/ \E a \in Addrs : ObsSetBalance(1, a, MaxBal)
  \/ ObsSetNonce(1, "A", MaxNonce)
  \/ ObsSetCode(1, "A", MaxCode)
  \/ ObsSetState(1, "A", "k", 0)
  \/ ObsSelfDestruct(1, "A")
  \/ ObsCreateAccount(1, "B")
  \/ CallFinalise(1, TRUE, <<"A", "B">>)
  \/ CallIntermediateRoot(1, TRUE, <<"A", "B">>)
  \/ CallCommit(1, TRUE, <<"A", "B">>)

SpecTerminal == InitCommit /\ [][NextTerminal]_vars

\* ----------------------------------------------------------- properties
\* C1: after RevertToSnapshot(id), GetBalance of every address is what it
\* was just before the Snapshot() call that returned id, whenever only
\* SetBalance/AddBalance/SubBalance calls (and further snapshots and
\* reverts) were made in between and no Finalise.
C1_RevertRestoresBalances ==
  (ret.op = "RevertToSnapshot" /\ ret.pure) => ret.after = ret.before

\* C1 witness: a bracket of balance calls that changed some balance and
\* made at least two journal entries has been reverted
C1_Witness ==
  /\ ret.op = "RevertToSnapshot"
  /\ ret.pure
  /\ ret.undone >= 2
  /\ ret.dirty # ret.before
  /\ ret.after = ret.before

\* C2: Finalise marks a touched address with a live object as deleted if
\* and only if the object is self-destructed, or is empty and
\* deleteEmptyObjects is set; so also for an address destructed and
\* resurrected earlier in the block.
C2_FinaliseDeletesIff ==
  ret.op \in {"Finalise", "IntermediateRoot"} =>
    \A a \in Addrs :
      ret.view[a].touched =>
        (ret.deleted[a] <=> (ret.view[a].selfDestructed
                               \/ (ret.deleteEmptyObjects /\ ret.view[a].empty)))

\* C2 witness: Finalise(true) has deleted an empty, not self-destructed
\* account that had been destructed and resurrected in the same block
C2_Witness ==
  /\ ret.op = "Finalise"
  /\ ret.deleteEmptyObjects
  /\ \E a \in Addrs : /\ ret.view[a].touched
                      /\ ret.view[a].marked
                      /\ ret.view[a].empty
                      /\ ~ret.view[a].selfDestructed
                      /\ ret.deleted[a]

\* C3 as stated: in every block of a manager, begun by New or by its
\* previous Commit, a destruct marker holds the account record as of the
\* start of the block (nil for an account that did not exist then).
C3_MarkerHoldsBlockStart ==
  \A a \in Addrs :
    IsSome(sdb[1].stateObjectsDestruct[a]) =>
      Get(sdb[1].stateObjectsDestruct[a]) = hist.blockStart[1][a]

\* C3 amended: in the block a manager begins at New, a destruct marker
\* holds the account record as of the start of the block, whatever
\* self-destructs, resurrections, CreateAccount and Finalise calls follow
\* the first destruction.
C3_MarkerHoldsBlockStartFromNew ==
  hist.fromNew[1] =>
    \A a \in Addrs :
      IsSome(sdb[1].stateObjectsDestruct[a]) =>
        Get(sdb[1].stateObjectsDestruct[a]) = hist.blockStart[1][a]

\* C3 witness: A was destructed, resurrected and self-destructed again in
\* the block begun at New, and its marker still holds the genesis record
C3_Witness ==
  /\ hist.fromNew[1]
  /\ sdb[1].stateObjectsDestruct["A"] = Some(Some(GenesisAccount))
  /\ IsSome(sdb[1].stateObjects["A"])
  /\ live(sdb[1], "A").origin = None
  /\ live(sdb[1], "A").selfDestructed
  /\ hist.txs[1] > 0

\* C5: an IntermediateRoot call that follows another with no mutation in
\* between returns the same hash, and after every IntermediateRoot call
\* the pending-object set is empty.
C5_IntermediateRootRepeats ==
  ret.op = "IntermediateRoot" =>
    /\ sdb[ret.m].stateObjectsPending = {}
    /\ IsSome(ret.previous) => ret.root = Get(ret.previous)

\* C5 witness: a second IntermediateRoot with no mutation since the first,
\* on a state that differs from the genesis state
C5_Witness ==
  /\ ret.op = "IntermediateRoot"
  /\ IsSome(ret.previous)
  /\ ret.root = Get(ret.previous)
  /\ ret.root # GenesisRoot

\* C4: after a Commit that succeeds with root r, a manager made by New(r)
\* on the same database answers GetBalance, GetNonce, GetCode and GetState
\* of every account mutated in the block as the committing manager did
\* just before the Commit; an account the block deleted reads as absent.
C4_CommitRoundTrip ==
  (ret.op = "Commit" /\ ret.err = "") =>
    /\ CanOpenTrie(ret.root)
    /\ LET reopened == reads([sdb EXCEPT ![2] = New(ret.root)], 2)
       IN \A a \in ret.mutated :
            reopened[a] = IF ret.deleted[a] THEN absent ELSE ret.reads[a]

\* C4 witness: the committed block changed the storage and the code of an
\* account that stays, and deleted another
C4_Witness ==
  /\ ret.op = "Commit"
  /\ ret.err = ""
  /\ \E a \in ret.mutated : /\ ~ret.deleted[a]
                            /\ ret.reads[a].code # 0
                            /\ ret.reads[a].state # [k \in Slots |-> 0]
  /\ \E a \in ret.mutated : ret.deleted[a]

\* C7: a Commit called while an error is memoized on the manager returns
\* the zero hash and an error, and does nothing else: no finalisation, no
\* write to the tries, the trie database or the snapshot tree, no
\* state-update notification, every block-scoped cache as it was.
C7_CommitRefusesAfterError ==
  (ret.op = "Commit" /\ ret.managerBefore.dbErr # "") =>
    /\ ret.root = ZeroHash
    /\ ret.err # ""
    /\ ret.events = <<>>
    /\ sdb[ret.m] = ret.managerBefore
    /\ db = ret.dbBefore
    /\ snaps = ret.snapsBefore

\* C7 witness: a Commit was refused on a manager that held unfinalised
\* changes of the transaction and dirty objects of the block
C7_Witness ==
  /\ ret.op = "Commit"
  /\ ret.managerBefore.dbErr # ""
  /\ ret.root = ZeroHash
  /\ Len(ret.managerBefore.journal) > 0
  /\ ret.managerBefore.stateObjectsDirty # {}
  /\ sdb[ret.m] = ret.managerBefore

\* C6: two managers made from the same root and handed the same mutations,
\* Finalise and IntermediateRoot calls get the same hash from
\* IntermediateRoot, whatever order each iterates its addresses in.
C6_IntermediateRootDeterministic ==
  ret.op = "PairIntermediateRoot" => ret.roots[1] = ret.roots[2]

\* C6 witness: both pending addresses were pushed to the tries, in
\* opposite orders by the two managers, and gave one new root
C6_Witness ==
  /\ ret.op = "PairIntermediateRoot"
  /\ ret.orders[1] # ret.orders[2]
  /\ ret.pending = Addrs
  /\ ret.roots[1] = ret.roots[2]
  /\ ret.roots[1] # GenesisRoot

\* C8 (as stated): when only transaction 0 writes a key, transaction 1
\* reading it after transaction 0 has flushed gets the value of
\* transaction 0, and reading it before that flush aborts on a dependency.
C8_ReadBeforeFlushAborts ==
  (ret.op = "GetBalance" /\ ret.m = 2 /\ ~ret.own /\ ret.writerWrote) =>
    /\ (IsSome(ret.lower) /\ ret.key \in Get(ret.lower).keys /\ ret.cell = MVReadResultDone)
         => (~ret.panic /\ ret.val = ret.writerHolds)
    /\ ret.lower = None => ret.panic

\* C8 (amended): after the flush the read returns the value transaction 0
\* holds and records a map read; before transaction 0 has flushed anything
\* the read does not abort: it falls through to the pre-block value and
\* records a storage read; it aborts only on a cell marked as an estimate.
C8_ReadBeforeFlushFallsThrough ==
  (ret.op = "GetBalance" /\ ret.m = 2 /\ ~ret.own /\ ret.writerWrote) =>
    /\ (IsSome(ret.lower) /\ ret.key \in Get(ret.lower).keys /\ ret.cell = MVReadResultDone)
         => /\ ~ret.panic
            /\ ret.val = ret.writerHolds
            /\ IsSome(sdb[2].readMap[ret.key])
            /\ ret.readBefore[ret.key] = None
                 => Get(sdb[2].readMap[ret.key]).Kind = "ReadKindMap"
    /\ ret.lower = None
         => /\ ~ret.panic
            /\ ret.val = ret.preBlock
            /\ IsSome(sdb[2].readMap[ret.key])
            /\ Get(sdb[2].readMap[ret.key]).Kind = "ReadKindStorage"
    /\ (ret.cell = MVReadResultDependency \/ ret.addrCell = MVReadResultDependency)
         => ret.panic

C8_Witness ==
  /\ ret.op = "GetBalance" /\ ret.m = 2 /\ ~ret.own /\ ret.writerWrote
  /\ ret.lower = None
  /\ ~ret.panic
  /\ ret.val = ret.preBlock
  /\ ret.writerHolds # ret.preBlock

\* C9: a read that meets a dependency in the map records the index of the
\* transaction it depends on, makes HadInvalidRead true, panics, returns
\* no value and records no read descriptor for that key.
C9_DependencyAborts ==
  (/\ ret.op = "GetBalance"
   /\ IsSome(ret.consulted)
   /\ Get(ret.consulted).res.status = MVReadResultDependency) =>
    /\ ret.panic
    /\ ret.val = None
    /\ DepTxIndex(sdb[ret.m]) = Get(ret.consulted).res.depIdx
    /\ HadInvalidRead(sdb[ret.m])
    /\ sdb[ret.m].readMap[Get(ret.consulted).key] = ret.readBefore[Get(ret.consulted).key]

C9_Witness ==
  /\ ret.op = "GetBalance"
  /\ IsSome(ret.consulted)
  /\ Get(ret.consulted).res.status = MVReadResultDependency
  /\ ret.panic
  /\ sdb[2].dep = 0
  /\ ret.readBefore[Get(ret.consulted).key] = None

\* what the cells of the map and the write sets say about who wrote them
MVWritesAreOwn ==
  /\ \A m \in Mgrs, k \in AllKeys :
       IsSome(sdb[m].writeMap[k]) => Get(sdb[m].writeMap[k]).V.TxnIndex = sdb[m].txIndex
  /\ \A k \in AllKeys, i \in TxIdxs :
       IsSome(mvHashmap[k][i]) =>
         /\ IsSome(hist.flushed[i + 1])
         /\ k \in Get(hist.flushed[i + 1]).keys

\* C10 (as stated): a write is recorded only in the writer's own write set
\* and no other manager observes it until a flush publishes it; after
\* flushes a read at index j observes the latest flushed write for the key
\* with an index below j, or the pre-block value if there is none.
C10_ReadObservesFlushedWrite ==
  /\ MVWritesAreOwn
  /\ (ret.op = "GetBalance" /\ ~ret.panic /\ ~ret.own) =>
       ret.val = IF IsSome(ret.lower) /\ ret.key \in Get(ret.lower).keys
                 THEN Get(ret.lower).balance[ret.addr]
                 ELSE ret.preBlock

\* C10 (amended): a write is recorded only in the writer's own write set and
\* no other manager observes it before the writer's first flush for the
\* account; a flush publishes the manager itself, so a later read at a
\* higher index observes the value the writer holds when the read happens:
\* the flushed one only while the writer has not written since.
C10_ReadObservesFlushedManager ==
  /\ MVWritesAreOwn
  /\ (ret.op = "GetBalance" /\ ~ret.panic /\ ~ret.own) =>
       /\ ret.val = IF IsSome(ret.lower)
                       /\ NewAddressKey(ret.addr) \in Get(ret.lower).keys
                    THEN ret.writerHolds
                    ELSE ret.preBlock
       /\ (IsSome(ret.lower) /\ ret.key \in Get(ret.lower).keys /\ ret.writerQuiet)
            => ret.val = Get(ret.lower).balance[ret.addr]

C10_Witness ==
  /\ ret.op = "GetBalance" /\ ret.m = 2 /\ ~ret.panic /\ ~ret.own
  /\ IsSome(ret.lower)
  /\ ret.key \in Get(ret.lower).keys
  /\ ret.val = ret.writerHolds
  /\ ret.val # Get(ret.lower).balance[ret.addr]

\* what a mutator of one manager leaves of the other managers
othersKept ==
  \A n \in Mgrs \ {ret'.m} :
    /\ sdb'[n].stateObjects = sdb[n].stateObjects
    /\ sdb'[n].readMap = sdb[n].readMap
    /\ sdb'[n].writeMap = sdb[n].writeMap

\* the first mutation of an address in an attempt: the address key is
\* recorded and the manager holds an object of its own
firstClones(m, a) ==
  (/\ sdb[m].writeMap[NewAddressKey(a)] = None
   /\ ret'.name = "SelfDestruct" => IsSome(sdb'[m].writeMap[NewSubpathKey(a, SuicidePath)])) =>
    /\ IsSome(sdb'[m].writeMap[NewAddressKey(a)])
    /\ IsSome(sdb'[m].stateObjects[a])
    /\ live(sdb'[m], a).db = m
    /\ IsSome(sdb[m].stateObjects[a]) /\ ~live(sdb[m], a).deleted => ~live(sdb'[m], a).created

\* a later mutation of the address: the object the manager made is not
\* cloned again (a clone is not a created object)
laterReuses(m, a) ==
  (/\ IsSome(sdb[m].writeMap[NewAddressKey(a)])
   /\ IsSome(sdb[m].stateObjects[a])
   /\ live(sdb[m], a).db = m
   /\ ~live(sdb[m], a).deleted) =>
    live(sdb'[m], a).created = live(sdb[m], a).created

\* C11: with the multi-version map on, the first mutation of an address in
\* an attempt replaces the manager's object by a deep copy and records the
\* address key, later mutations reuse that copy, and no mutator of one
\* manager changes an object, read set or write set of another manager.
C11_MutatorsKeepToTheirManager ==
  [][ret'.op = "mutator" =>
       /\ othersKept
       /\ ~ret'.panic => /\ firstClones(ret'.m, ret'.addr)
                         /\ laterReuses(ret'.m, ret'.addr)]_vars

\* C12: RevertToSnapshot(id) panics when id was never returned by Snapshot
\* on the manager or has been reverted already, directly or by a revert to
\* an earlier revision; it then undoes no journal entry and leaves the
\* valid revisions as they are.
C12_InvalidRevertPanics ==
  [][(ret'.op = "RevertToSnapshot" /\ (ret'.never \/ ret'.reverted)) =>
       /\ ret'.panic
       /\ sdb'[ret'.m].journal = sdb[ret'.m].journal
       /\ sdb'[ret'.m].validRevisions = sdb[ret'.m].validRevisions
       /\ sdb'[ret'.m].stateObjects = sdb[ret'.m].stateObjects]_vars

\* C12 witness: a revert to an identifier reverted earlier has panicked
\* while a later revision was outstanding and the journal held an entry
C12_Witness ==
  /\ ret.op = "RevertToSnapshot"
  /\ ret.reverted
  /\ ret.panic
  /\ Len(sdb[1].journal) > 0
  /\ \E i \in 1..Len(sdb[1].validRevisions) : sdb[1].validRevisions[i].id > ret.id

\* the identifiers of a list of revisions, in order
revisionIds(revs) == [i \in 1..Len(revs) |-> revs[i].id]

\* C13: RevertToSnapshot(id) undoes exactly the journal entries appended
\* after the Snapshot() call that returned id, discards revision id and
\* every revision taken after it, and every outstanding revision taken
\* before id stays valid and can still be reverted to.
C13_RevertUndoesExactly ==
  [][(ret'.op = "RevertToSnapshot" /\ ~ret'.panic) =>
       /\ ret'.recorded >= 0
       /\ sdb'[ret'.m].journal = SubSeq(sdb[ret'.m].journal, 1, ret'.recorded)
       /\ revisionIds(sdb'[ret'.m].validRevisions) = revisionIds(hist'.revs[ret'.m])
       /\ \A id \in hist'.issued[ret'.m] :
            revertPanics(sdb'[ret'.m], id)
              <=> id \notin {hist'.revs[ret'.m][i].id : i \in 1..Len(hist'.revs[ret'.m])}
       /\ ret'.id \in hist'.reverted[ret'.m]]_vars

\* C13 witness: a revert to the later of two revisions undid an entry and
\* left the earlier revision outstanding
C13_Witness ==
  /\ ret.op = "RevertToSnapshot"
  /\ ~ret.panic
  /\ ret.undone >= 1
  /\ Len(sdb[1].journal) = ret.recorded
  /\ Len(sdb[1].validRevisions) >= 1
  /\ sdb[1].validRevisions[1].id < ret.id

\* C14: every Snapshot() call of a manager returns an identifier greater
\* than every identifier the manager returned before, across Snapshot,
\* RevertToSnapshot and Finalise: identifiers are never used again.
C14_SnapshotIdsIncrease ==
  ret.op = "Snapshot" => \A i \in ret.seen : ret.id > i

\* C14 witness: Snapshot returned n + 1 after n was handed out and made
\* invalid, by a revert or by a Finalise
C14_Witness ==
  /\ ret.op = "Snapshot"
  /\ ret.id - 1 \in ret.seen
  /\ ret.id - 1 \in hist.reverted[1] \cup hist.oldDone[1]
  /\ hist.reverted[1] # {}
  /\ hist.oldDone[1] # {}

\* C15 (as stated): after Finalise, IntermediateRoot or Commit every
\* revision identifier obtained before that call is invalid: a revert to
\* it panics.
C15_OldRevisionsPanic ==
  (ret.op = "RevertToSnapshot" /\ ret.old) => ret.panic

\* C15 (amended): after Finalise, after IntermediateRoot and after a
\* Commit that is not refused for a memoized error, every revision
\* identifier obtained before that call is invalid: a revert to it panics
\* and undoes nothing, also when the transaction recorded no journal
\* entry; a revert that succeeds goes back to a journal length recorded
\* after that call.
C15_OldRevisionsPanicUnlessRefused ==
  ret.op = "RevertToSnapshot" =>
    /\ ret.oldDone => (ret.panic /\ ret.undone = 0)
    /\ ~ret.panic => (~ret.oldDone /\ ret.recorded >= 0)

\* C15 witness: a revert to an identifier obtained before a Finalise has
\* panicked on a manager that never recorded a journal entry
C15_Witness ==
  /\ ret.op = "RevertToSnapshot"
  /\ ret.oldDone
  /\ ret.panic
  /\ hist.ops[1] = 0
  /\ hist.commits[1] = 0

\* C16: Finalise clears the refund counter: in every state reached right
\* after a Finalise call returns, GetRefund() is 0, for every manager
\* however it was obtained (New, NewWithMVHashmap or Copy).
C16_FinaliseClearsRefund ==
  ret.op = "Finalise" => GetRefund(sdb[ret.m]) = 0

\* C17: for an account A that exists at block start, after SelfDestruct(A)
\* followed in the same transaction by CreateAccount(A) and then Finalise,
\* the destruct-marker map holds A with its record as of the block start
\* and GetBalance(A) returns 0.
C17_RecreatedAfterSelfDestruct ==
  (/\ ret.op = "Finalise"
   /\ ret.trail = << <<"selfDestructChange", "A">>, <<"resetObjectChange", "A">> >>
   /\ IsSome(hist.blockStart[ret.m]["A"]))
  => /\ sdb[ret.m].stateObjectsDestruct["A"] = Some(hist.blockStart[ret.m]["A"])
     /\ ~GetBalance(sdb, ret.m, "A").panic
     /\ GetBalance(sdb, ret.m, "A").val = 0

\* C17 witness: the genesis account A, which holds a balance and nonce 1,
\* was self-destructed and created again in the first transaction, and
\* that transaction was finalised
C17_Witness ==
  /\ ret.op = "Finalise"
  /\ ret.trail = << <<"selfDestructChange", "A">>, <<"resetObjectChange", "A">> >>
  /\ hist.blockStart[ret.m]["A"] = Some(GenesisAccount)
  /\ GenesisAccount.balance > 0
  /\ GenesisAccount.nonce = 1
  /\ hist.txs[ret.m] = 1

\* C18: within a Commit, the state-update notification is made before the
\* snapshot tree is updated and capped and before the trie database is
\* updated, and it carries the destructs, accounts, storages and code
\* updates of the block as they are before the sets of the block are
\* cleared.
C18_NotificationBeforeUpdates ==
  (ret.op = "Commit" /\ IsSome(ret.update)) =>
    /\ \E i \in 1..Len(ret.events) : ret.events[i] = "StateUpdate"
    /\ \A i, j \in 1..Len(ret.events) :
         (/\ ret.events[i] = "StateUpdate"
          /\ ret.events[j] \in {"snaps.Update", "snaps.Cap", "TrieDB.Update"}) => i < j
    /\ Get(ret.update).destructs = ret.block.destructs
    /\ Get(ret.update).accounts = ret.block.accounts
    /\ Get(ret.update).storages = ret.block.storages
    /\ Get(ret.update).codeUpdates = ret.block.codeUpdates

\* C18 witness: a Commit that notified, updated the snapshot tree and the
\* trie database, and whose notification carried a destruct, an account,
\* a storage change and a code update, none of which the manager holds
\* after the call
C18_Witness ==
  /\ ret.op = "Commit"
  /\ IsSome(ret.update)
  /\ ret.events = <<"StateUpdate", "snaps.Update", "snaps.Cap", "TrieDB.Update">>
  /\ Get(ret.update).destructs # {}
  /\ \E a \in Addrs : IsSome(Get(ret.update).accounts[a])
  /\ \E a \in Addrs : IsSome(Get(ret.update).storages[a])
  /\ Get(ret.update).codeUpdates # {}
  /\ \A a \in Addrs : /\ sdb[ret.m].accounts[a] = None
                       /\ sdb[ret.m].storages[a] = None
                       /\ sdb[ret.m].stateObjectsDestruct[a] = None

\* the state-update notifications among the events of the last Commit
notifications == {i \in 1..Len(ret.events) : ret.events[i] = "StateUpdate"}

\* every listener registered was called, each with these two roots
delivered(blockRoot, parentRoot) ==
  /\ IsSome(ret.update)
  /\ Len(ret.deliveries) = ret.modules
  /\ \A l \in 1..Len(ret.deliveries) :
       /\ ret.deliveries[l].blockRoot = blockRoot
       /\ ret.deliveries[l].parentRoot = parentRoot

C20_CommitClearsBlockSets ==
  (ret.op = "Commit" /\ ret.err = "") =>
    /\ \A a \in Addrs : /\ sdb[ret.m].accounts[a] = None
                         /\ sdb[ret.m].storages[a] = None
                         /\ sdb[ret.m].accountsOrigin[a] = None
                         /\ sdb[ret.m].storagesOrigin[a] = None
                         /\ sdb[ret.m].stateObjectsDestruct[a] = None
    /\ sdb[ret.m].stateObjectsDirty = {}
    /\ sdb[ret.m].stateObjectsPending = {}

\* C20 witness: a Commit succeeded on a manager that came to it with
\* pending and dirty objects and a destruct marker, in a block whose root
\* computation recorded accounts, storage and their original values
C20_Witness ==
  /\ ret.op = "Commit"
  /\ ret.err = ""
  /\ ret.managerBefore.stateObjectsPending # {}
  /\ ret.managerBefore.stateObjectsDirty # {}
  /\ \E a \in Addrs : IsSome(ret.managerBefore.stateObjectsDestruct[a])
  /\ \E a \in Addrs : IsSome(ret.block.accountsOrigin[a])
  /\ \E a \in Addrs : IsSome(ret.block.storagesOrigin[a])
  /\ \E a \in Addrs : IsSome(ret.block.accounts[a])
  /\ \E a \in Addrs : IsSome(ret.block.storages[a])

\* C21: Commit puts the empty root in the place of a zero-hash trie root
\* and of a zero-hash originalRoot before it compares them; the trie
\* database is updated and originalRoot advanced to the new root if and
\* only if the two substituted values differ, and a Commit that succeeds
\* never returns the zero hash.
C21_CommitComparesSubstitutedRoots ==
  (ret.op = "Commit" /\ ret.err = "") =>
    LET new == IF HashTrie(sdb[ret.m].trie) = ZeroHash THEN EmptyRootHash
               ELSE HashTrie(sdb[ret.m].trie)
        old == IF ret.managerBefore.originalRoot = ZeroHash THEN EmptyRootHash
               ELSE ret.managerBefore.originalRoot
    IN /\ ret.root = new
       /\ ret.root # ZeroHash
       /\ (\E i \in 1..Len(ret.events) : ret.events[i] = "TrieDB.Update") <=> new # old
       /\ new # old => /\ sdb[ret.m].originalRoot = new
                       /\ new \in db.tries
       /\ new = old => /\ sdb[ret.m].originalRoot = ret.managerBefore.originalRoot
                       /\ db.tries = ret.dbBefore.tries

\* C21 witness: a manager opened at the zero hash committed a block that
\* left the state empty; the trie database was not updated and the
\* manager's originalRoot is still the zero hash
C21_Witness ==
  /\ ret.op = "Commit"
  /\ ret.err = ""
  /\ ret.managerBefore.originalRoot = ZeroHash
  /\ ret.managerBefore.stateObjectsPending # {}
  /\ ret.root = EmptyRootHash
  /\ sdb[ret.m].originalRoot = ZeroHash
  /\ db.tries = ret.dbBefore.tries

\* C22: Commit is the terminal state of a manager's lifecycle: once Commit
\* has returned successfully, no mutation (SetBalance, SetNonce, SetCode,
\* SetState, SelfDestruct, CreateAccount) and no further IntermediateRoot
\* or Commit takes effect on that manager.
C22_CommitIsTerminal ==
  /\ (ret.op = "mutator" /\ ret.committed) => ret.after = ret.before
  /\ (ret.op = "IntermediateRoot" /\ ~hist.fromNew[ret.m]) =>
       sdb[ret.m].trie = hist.blockStart[ret.m]
  /\ (ret.op = "Commit" /\ ~ret.fresh) =>
       /\ db = ret.dbBefore
       /\ snaps = ret.snapsBefore

\* C22 amended: Commit is terminal as an obligation of the caller only;
\* the manager refuses nothing afterwards.  On a manager that has been
\* through a successful Commit, SetBalance, SetNonce, SetCode and SetState
\* still take effect (the getter returns the value just set), SelfDestruct
\* of an existing account still clears its balance and CreateAccount
\* still leaves a fresh account.
C22_CommittedManagerStillMutates ==
  (ret.op = "mutator" /\ ret.committed /\ ~ret.panic) =>
    /\ ret.name = "SetBalance" => ret.after.balance = ret.arg
    /\ ret.name = "SetNonce" => ret.after.nonce = ret.arg
    /\ ret.name = "SetCode" => ret.after.code = ret.arg
    /\ ret.name = "SetState" => \A k \in Slots : ret.after.state[k] = ret.arg
    /\ (ret.name = "SelfDestruct" /\ ret.before.exist) => ret.after.balance = 0
    /\ ret.name = "CreateAccount" => /\ ret.after.exist
                                     /\ ret.after.nonce = 0
                                     /\ ret.after.code = 0

\* C22 witness: SetBalance on a manager that had been through a
\* successful Commit changed the balance the manager reports
C22_Witness ==
  /\ ret.op = "mutator"
  /\ ret.name = "SetBalance"
  /\ ret.committed
  /\ ~ret.panic
  /\ ret.before.balance # ret.arg
  /\ ret.after.balance = ret.arg
  /\ GetBalance(sdb, ret.m, ret.addr).val = ret.arg

\* the inputs of one deletion
StorageRoots(items) == {stackHash(items), <<>>}
FastFails == {"", "account", "open", "end", "slot", "update"}
SlowFails == {"", "open", "iterator", "end"}
FailsAt(f, items) ==
  IF f \in {"slot", "update"} /\ items # <<>> THEN 1..Len(items) ELSE {1}
Fails(path) == IF path = "fast" THEN FastFails ELSE SlowFails
\* a trie is empty or its last item, in the order of the iterators, is a leaf
StorageTries ==
  {items \in StorageItemsUpTo(MaxItems) :
     items = <<>> \/ items[Len(items)].leaf}

InitDelete ==
  /\ db = GenesisDB("path")
  /\ snaps = GenesisSnaps(TRUE)
  /\ mvHashmap = EmptyMVHashMap
  /\ sdb = [m \in Mgrs |-> New(GenesisRoot)]
  /\ hist = InitHist
  /\ \E items \in StorageTries, path \in {"fast", "slow"} :
       \E f \in Fails(path), root \in StorageRoots(items) :
         \E at \in FailsAt(f, items) :
           /\ path = "slow" => root = stackHash(items) /\ at = 1
           /\ ret = [op |-> "storage",
                     in |-> [path |-> path, items |-> items, root |-> root,
                             fails |-> f, failsAt |-> at]]

CallFastDeleteStorage ==
  /\ ret.op = "storage"
  /\ ret.in.path = "fast"
  /\ ret' = [op |-> "fastDeleteStorage", in |-> ret.in,
             out |-> fastDeleteStorage(ret.in)]
  /\ UNCHANGED <<sdb, mvHashmap, db, snaps, hist>>

CallSlowDeleteStorage ==
  /\ ret.op = "storage"
  /\ ret.in.path = "slow"
  /\ ret' = [op |-> "slowDeleteStorage", in |-> ret.in,
             out |-> slowDeleteStorage(ret.in)]
  /\ UNCHANGED <<sdb, mvHashmap, db, snaps, hist>>

NextDelete == CallFastDeleteStorage \/ CallSlowDeleteStorage
SpecDelete == InitDelete /\ [][NextDelete]_vars

\* C23: for every destructed account whose storage, measured as the sum over
\* its slots of 32 + value length plus the path lengths of the deleted nodes,
\* exceeds storageDeleteLimit, the deletion (fast or slow path, no step of
\* it failing) returns aborted = true with a nil error and neither a slot
\* map nor a node set.
C23_OversizedStorageAborts ==
  ( /\ ret.op \in {"fastDeleteStorage", "slowDeleteStorage"}
    /\ ret.in.fails = ""
    /\ ret.in.root = stackHash(ret.in.items)
    /\ storageSize(ret.in.items) > storageDeleteLimit )
  => ( /\ ret.out.aborted
       /\ ret.out.err = ""
       /\ ret.out.slots = None
       /\ ret.out.nodes = None )

\* C24: a fast deletion that was not aborted for size returns a slot map
\* (with aborted = false and a nil error) only if the root recomputed from
\* the iterated slots equals the account's storage root, and the map holds
\* exactly the iterated slots; if the recomputed root differs, it returns an
\* error and no slots.
C24_FastPathChecksRoot ==
  ret.op = "fastDeleteStorage" =>
    /\ ret.out.slots # None =>
         /\ ~ret.out.aborted
         /\ ret.out.err = ""
         /\ stackHash(ret.in.items) = ret.in.root
         /\ Get(ret.out.slots) = leavesOf(ret.in.items)
    /\ (~ret.out.aborted /\ stackHash(ret.in.items) # ret.in.root) =>
         /\ ret.out.err # ""
         /\ ret.out.slots = None
         /\ ret.out.nodes = None

C24_Witness ==
  /\ ret.op = "fastDeleteStorage"
  /\ ret.out.err = "snapshot is not matched"
  /\ Len(leavesOf(ret.in.items)) = 2
  /\ storageSize(ret.in.items) <= storageDeleteLimit + HashLength

\* One manager, and a copy of it, on a path-scheme database in which the
\* storage of an account may be oversized and whose reads may fail: accounts
\* are destructed and resurrected, and the block is committed.
InitDestruct ==
  /\ \E on \in BOOLEAN, big \in SUBSET {[root |-> GenesisRoot, addr |-> "A"]} :
       /\ db = [GenesisDB("path") EXCEPT !.bulk = big]
       /\ snaps = GenesisSnaps(on)
  /\ mvHashmap = EmptyMVHashMap
  /\ sdb = [m \in Mgrs |-> New(GenesisRoot)]
  /\ ret = [op |-> "New"]
  /\ hist = InitHist

NextDestruct ==
  \/ CallSelfDestruct(1, "A")
  \/ \E v \in 0..MaxVal : CallSetState(1, "A", "k", v)
  \/ CallFinalise(1, TRUE, <<"A", "B">>)
  \/ CallCommit(1, TRUE, <<"A", "B">>)
  \/ ~db.faulty /\ Fault
  \/ hist.commits[1] > 0 /\ CallCopy(1, 2)
  \/ hist.copies[2] > 0 /\ CallSelfDestruct(2, "A")
  \/ hist.copies[2] > 0 /\ CallCommit(2, TRUE, <<"A", "B">>)

SpecDestruct == InitDestruct /\ [][NextDestruct]_vars

\* C25: deleteStorage runs the slow path exactly when no snapshot is set or
\* the fast path returned an error; a fast path aborted for size is not
\* followed by the slow path.  When the slow path returns an error too,
\* Commit returns the zero hash and the error of handleDestruction.
C25_SlowPathOnlyAfterFastError ==
  ( /\ ret.op = "Commit"
    /\ ret.managerBefore.dbErr = "" )
  => \A a \in Addrs :
       ret.destruction.deletions[a] # None =>
         /\ Get(ret.destruction.deletions[a]).fast # None
              <=> ret.managerBefore.snap # "nil"
         /\ Get(ret.destruction.deletions[a]).slow # None
              <=> ( \/ ret.managerBefore.snap = "nil"
                    \/ Get(Get(ret.destruction.deletions[a]).fast).err # "" )
         /\ ( /\ Get(ret.destruction.deletions[a]).fast # None
              /\ Get(Get(ret.destruction.deletions[a]).fast).aborted )
              => /\ Get(ret.destruction.deletions[a]).slow = None
                 /\ Get(ret.destruction.deletions[a]).aborted
         /\ ( /\ Get(ret.destruction.deletions[a]).slow # None
              /\ Get(Get(ret.destruction.deletions[a]).slow).err # "" )
              => /\ ret.root = ZeroHash
                 /\ ret.err = "failed to delete storage"
                 /\ ret.destruction.err

C25_Witness ==
  /\ ret.op = "Commit"
  /\ ret.managerBefore.dbErr = ""
  /\ ret.err = "failed to delete storage"
  /\ Get(ret.destruction.deletions["A"]).fast # None
  /\ Get(Get(ret.destruction.deletions["A"]).fast).err = "snap.Account"
  /\ Get(Get(ret.destruction.deletions["A"]).slow).err = "failed to open storage trie"

\* C26: an address is in the incomplete set handleDestruction returns if and
\* only if the deletion of its storage was aborted for size; storagesOrigin
\* holds no entry for such an address when it is handed to the trie
\* database, whatever a resurrection in the block had tracked; and a Commit
\* whose handleDestruction met no error other than aborts does not fail on
\* its account.
C26_IncompleteIffAborted ==
  ( /\ ret.op = "Commit"
    /\ ret.managerBefore.dbErr = ""
    /\ ~ret.destruction.err )
  => /\ \A a \in Addrs :
          a \in ret.destruction.incomplete
            <=> ( /\ ret.destruction.deletions[a] # None
                  /\ Get(ret.destruction.deletions[a]).aborted )
     /\ \A a \in ret.destruction.incomplete :
          ret.origins # None => Get(ret.origins).storages[a] = None
     /\ ret.err # "failed to delete storage"
     /\ (~ret.faulty => ret.err = "")

C26_Witness ==
  /\ ret.op = "Commit"
  /\ ret.err = ""
  /\ ret.destruction.incomplete = {"A"}
  /\ ret.block.storagesOrigin["A"] # None
  /\ ret.origins # None
  /\ Get(ret.origins).accounts["A"] # None

\* One manager through the transactions of a block on a path-scheme
\* database: the balance and the storage of an account change from one
\* transaction to the next, the account is destructed, and the block is
\* committed by the manager or by a copy made of it during the block.
NextOrigin ==
  \/ CallAddBalance(1, "A", 1)
  \/ \E v \in 0..MaxVal : CallSetState(1, "A", "k", v)
  \/ CallSelfDestruct(1, "A")
  \/ CallIntermediateRoot(1, TRUE, <<"A", "B">>)
  \/ CallCommit(1, TRUE, <<"A", "B">>)
  \/ hist.commits[1] = 0 /\ CallCopy(1, 2)
  \/ hist.copies[2] > 0 /\ CallCommit(2, TRUE, <<"A", "B">>)

InitOrigin ==
  /\ db = GenesisDB("path")
  /\ \E on \in BOOLEAN : snaps = GenesisSnaps(on)
  /\ mvHashmap = EmptyMVHashMap
  /\ sdb = [m \in Mgrs |-> New(GenesisRoot)]
  /\ ret = [op |-> "New"]
  /\ hist = InitHist

SpecOrigin == InitOrigin /\ [][NextOrigin]_vars

\* the account and the slot as they were in the state the block started from
originAccount(start, a) ==
  IF start[a] = None THEN None ELSE Some(SlimAccountRLP(Get(start[a])))
originSlot(start, a, k) ==
  IF start[a] = None THEN 0 ELSE Get(start[a]).root[k]

\* C27: whenever Commit hands accountsOrigin and storagesOrigin to the trie
\* database, every entry holds the value the account or slot had at the root
\* the manager was opened at (nil if it did not exist), never a value an
\* earlier transaction of the block produced.
C27_OriginsAreBlockStartValues ==
  (ret.op = "Commit" /\ ret.origins # None)
  => \A a \in Addrs :
       /\ Get(ret.origins).accounts[a] # None
            => Get(Get(ret.origins).accounts[a]) = originAccount(ret.start, a)
       /\ Get(ret.origins).storages[a] # None
            => \A k \in Slots :
                 Get(Get(ret.origins).storages[a])[k] # None
                   => Get(Get(Get(ret.origins).storages[a])[k]) = originSlot(ret.start, a, k)

\* a getter call of manager m: out is its outcome, clean the outcome it
\* would have had with no error memoized
readCall(m, addr, name, out, clean) ==
  /\ sdb' = out.S
  /\ ret' = [op |-> "read", name |-> name, m |-> m, addr |-> addr,
             val |-> out.val,
             clean |-> clean.val,
             errBefore |-> sdb[m].dbErr,
             errAfter |-> out.S[m].dbErr,
             managerBefore |-> sdb[m],
             liveAfter |-> IsSome(out.S[m].stateObjects[addr]),
             faulty |-> db.faulty]
  /\ UNCHANGED <<mvHashmap, db, snaps, hist>>

ReadExist(m, addr) ==
  readCall(m, addr, "Exist", Exist(sdb, m, addr),
           Exist([sdb EXCEPT ![m].dbErr = ""], m, addr))

ReadBalance(m, addr) ==
  readCall(m, addr, "GetBalance", GetBalance(sdb, m, addr),
           GetBalance([sdb EXCEPT ![m].dbErr = ""], m, addr))

\* what a getter answers for an account that is absent
defaultOf(name) == IF name = "Exist" THEN FALSE ELSE 0

\* One manager whose accounts are read and written while the database
\* fails its reads and recovers; the block is committed.
NextRead ==
  \/ \E a \in Addrs : ReadExist(1, a)
  \/ \E a \in Addrs : ReadBalance(1, a)
  \/ \E a \in Addrs : CallAddBalance(1, a, 1)
  \/ CallSelfDestruct(1, "A")
  \/ CallFinalise(1, TRUE, <<"A", "B">>)
  \/ CallCommit(1, TRUE, <<"A", "B">>)
  \/ Fault

SpecRead == InitCommit /\ [][NextRead]_vars

\* C28 as stated: once a database read error is pending on the manager,
\* every getter answers as for an absent account (the default value, Exist
\* false).
C28_AbsentOnceErrorPending ==
  (ret.op = "read" /\ ret.errBefore # "") => ret.val = defaultOf(ret.name)

\* C28 as the code has it: the read that fails memoizes the first error and
\* answers as for an absent account, which is not cached; nothing consults
\* the memoized error afterwards, so a getter answers what it would answer
\* without it, the balance of a live object in particular; the error stays
\* as it is and Commit returns it with the zero hash.
C28_ErrorOnlyFailsItsOwnRead ==
  /\ ret.op = "read" =>
       /\ ret.val = ret.clean
       /\ ret.errBefore # "" => ret.errAfter = ret.errBefore
       /\ (ret.errBefore = "" /\ ret.errAfter # "") =>
            /\ ret.val = defaultOf(ret.name)
            /\ ~ret.liveAfter
            /\ ret.faulty
       /\ ( /\ ret.name = "GetBalance"
            /\ IsSome(ret.managerBefore.stateObjects[ret.addr])
            /\ ~Get(ret.managerBefore.stateObjects[ret.addr]).deleted )
            => ret.val = Get(ret.managerBefore.stateObjects[ret.addr]).data.balance
  /\ (ret.op = "Commit" /\ ret.managerBefore.dbErr # "") =>
       /\ ret.root = ZeroHash
       /\ ret.err = "commit aborted due to earlier error"

C28_Witness ==
  /\ ret.op = "read"
  /\ ret.name = "GetBalance"
  /\ ret.errBefore # ""
  /\ ret.val = 2
  /\ ret.faulty

\* what Exist or GetBalance answers from an account
answerOf(name, acct) == IF name = "Exist" THEN TRUE ELSE acct.balance

\* C29: an account is looked up in the live objects, then in the snapshot,
\* then in the trie.  A live object is answered from without a read of the
\* snapshot or the trie; an account the snapshot serves is answered from it
\* and not from the trie; the trie is read when there is no snapshot or
\* its read fails; an account that is loaded is put among the live
\* objects; an account found nowhere is absent and no error is memoized.
C29_LookupOrder ==
  ret.op = "read" =>
    IF IsSome(ret.managerBefore.stateObjects[ret.addr])
    THEN /\ sdb[ret.m] = ret.managerBefore
         /\ ret.val = IF Get(ret.managerBefore.stateObjects[ret.addr]).deleted
                      THEN defaultOf(ret.name)
                      ELSE answerOf(ret.name, Get(ret.managerBefore.stateObjects[ret.addr]).data)
    ELSE IF ret.managerBefore.snap = "layer"
    THEN /\ ret.errAfter = ret.errBefore
         /\ IF Layer(ret.managerBefore.snapRoot).accounts[ret.addr] = None
            THEN ret.val = defaultOf(ret.name) /\ ~ret.liveAfter
            ELSE /\ ret.val = answerOf(ret.name,
                                FullAccount(Get(Layer(ret.managerBefore.snapRoot).accounts[ret.addr])))
                 /\ ret.liveAfter
    ELSE IF ret.faulty
    THEN /\ ret.errAfter # ""
         /\ ret.val = defaultOf(ret.name)
         /\ ~ret.liveAfter
    ELSE /\ ret.errAfter = ret.errBefore
         /\ IF ret.managerBefore.trie[ret.addr] = None
            THEN ret.val = defaultOf(ret.name) /\ ~ret.liveAfter
            ELSE /\ ret.val = answerOf(ret.name, Get(ret.managerBefore.trie[ret.addr]))
                 /\ ret.liveAfter

\* C29 witness: an account that is not live is served by the snapshot while
\* a read of the trie would fail
C29_Witness ==
  /\ ret.op = "read"
  /\ ~IsSome(ret.managerBefore.stateObjects[ret.addr])
  /\ ret.managerBefore.snap = "layer"
  /\ ret.faulty
  /\ ret.val = TRUE
  /\ ret.liveAfter
  /\ ret.errAfter = ""

\* a call that prepares manager m for an execution attempt
attemptCall(m, name, inc, s1) ==
  /\ sdb' = [sdb EXCEPT ![m] = s1]
  /\ ret' = [op |-> name, m |-> m, inc |-> inc, managerBefore |-> sdb[m]]
  /\ UNCHANGED <<mvHashmap, db, snaps, hist>>

CallSetIncarnation(m, inc) == attemptCall(m, "SetIncarnation", inc, SetIncarnation(sdb[m], inc))
CallClearReadMap(m) == attemptCall(m, "ClearReadMap", 0, ClearReadMap(sdb[m]))
CallClearWriteMap(m) == attemptCall(m, "ClearWriteMap", 0, ClearWriteMap(sdb[m]))

\* Two managers execute transactions 0 and 1 of a block over one
\* multi-version map; the second one is taken through execution attempts.
NextIncarnation ==
  \/ \E m \in Mgrs : ObsSetBalance(m, "A", MaxBal)
  \/ \E a \in Addrs : CallGetBalance(2, a)
  \/ CallFlushMVWriteSet(1)
  \/ CallMarkEstimate(0)
  \/ \E inc \in 0..MaxIncarnation : CallSetIncarnation(2, inc)
  \/ CallClearReadMap(2)
  \/ CallClearWriteMap(2)

SpecIncarnation == InitMV /\ [][NextIncarnation]_vars

\* C30 as stated: with the multi-version map set, every read made through
\* the manager is in its read set and every write in its write set, and both
\* sets are empty once the manager has been given an incarnation.
C30_SetsRecordAllAndAreCleared ==
  /\ (ret.op = "GetBalance" /\ ~ret.panic) => IsSome(sdb[ret.m].readMap[ret.key])
  /\ (ret.op = "mutator" /\ ~ret.panic)
       => IsSome(sdb[ret.m].writeMap[NewSubpathKey(ret.addr, BalancePath)])
  /\ ret.op = "SetIncarnation"
       => sdb[ret.m].readMap = NoReads /\ sdb[ret.m].writeMap = NoWrites

\* C30 as the code has it: a write is recorded in the write set under the
\* manager's version; a read is recorded when it got its answer through
\* the multi-version map, not when the key is in the manager's own write
\* set, the account is absent or the read aborts; SetIncarnation changes
\* the incarnation and nothing else, and the sets are emptied by
\* ClearReadMap and ClearWriteMap.
C30_SetsAreClearedByTheCaller ==
  /\ (ret.op = "mutator" /\ ~ret.panic)
       => /\ IsSome(sdb[ret.m].writeMap[NewSubpathKey(ret.addr, BalancePath)])
          /\ Get(sdb[ret.m].writeMap[NewSubpathKey(ret.addr, BalancePath)]).V
               = Version(sdb[ret.m])
  /\ ret.op = "GetBalance"
       => IF ~ret.panic /\ ret.consulted # None /\ Get(ret.consulted).key = ret.key
          THEN IsSome(sdb[ret.m].readMap[ret.key])
          ELSE sdb[ret.m].readMap[ret.key] = ret.readBefore[ret.key]
  /\ ret.op = "SetIncarnation"
       => sdb[ret.m] = [ret.managerBefore EXCEPT !.incarnation = ret.inc]
  /\ ret.op = "ClearReadMap"
       => sdb[ret.m] = [ret.managerBefore EXCEPT !.readMap = NoReads]
  /\ ret.op = "ClearWriteMap"
       => sdb[ret.m] = [ret.managerBefore EXCEPT !.writeMap = NoWrites]

\* C30 witness: a manager that has read and written is given another
\* incarnation
C30_Witness ==
  /\ ret.op = "SetIncarnation"
  /\ ret.inc # ret.managerBefore.incarnation
  /\ ret.managerBefore.readMap # NoReads
  /\ ret.managerBefore.writeMap # NoWrites
  /\ sdb[ret.m].readMap = ret.managerBefore.readMap

\* a refund call of manager m, observed with its argument
refundCall(m, name, gas, out) ==
  /\ CanCall(m)
  /\ sdb' = [sdb EXCEPT ![m] = out.s]
  /\ ret' = [op |-> name, m |-> m, gas |-> gas, panic |-> out.panic,
             before |-> GetRefund(sdb[m])]
  /\ hist' = noteMutation(hist, m, FALSE)
  /\ UNCHANGED <<mvHashmap, db, snaps>>

ObsAddRefund(m, gas) ==
  /\ sdb[m].refund + gas <= MaxRefund
  /\ refundCall(m, "AddRefund", gas, [s |-> AddRefund(sdb[m], gas), panic |-> FALSE])

ObsSubRefund(m, gas) == refundCall(m, "SubRefund", gas, SubRefund(sdb[m], gas))

\* A manager and a copy of it: gas is added to and removed from the refund
\* counter, within snapshots that are reverted and transactions that are
\* finalised.
NextSubRefund ==
  \/ \E gas \in 1..MaxRefund : ObsAddRefund(1, gas)
  \/ \E gas \in 1..MaxRefund : ObsSubRefund(1, gas)
  \/ CallSnapshot(1)
  \/ \E revid \in 0..MaxRevisions : CallRevertToSnapshot(1, revid)
  \/ CallFinalise(1, TRUE, <<"A", "B">>)
  \/ CallCopy(1, 2)
  \/ hist.copies[2] > 0 /\ \E gas \in 1..MaxRefund : ObsSubRefund(2, gas)

SpecSubRefund == Init /\ [][NextSubRefund]_vars

\* C31: SubRefund(gas) with gas above the refund counter panics and leaves
\* the counter as it was, otherwise it takes exactly gas off the counter;
\* the counter of no manager is ever below zero.
C31_SubRefundNeverBelowZero ==
  /\ ret.op = "SubRefund"
       => IF ret.gas > ret.before
          THEN ret.panic /\ GetRefund(sdb[ret.m]) = ret.before
          ELSE ~ret.panic /\ GetRefund(sdb[ret.m]) = ret.before - ret.gas
  /\ \A m \in Mgrs : GetRefund(sdb[m]) >= 0

\* C31 witness: a SubRefund of more gas than a non-zero counter holds
C31_Witness ==
  /\ ret.op = "SubRefund"
  /\ ret.panic
  /\ ret.before > 0
  /\ GetRefund(sdb[ret.m]) = ret.before

\* ------------------------------------------------------------------------
\* pluginStateUpdate as a function of its arguments: the state of the parent
\* block, the snapshot handle (a layer of the parent state or the
\* pluginSnapshot), the trie handle (of an unsupported type, committed, or
\* open on the parent state or on the state of the block) and the destructs
\* and accounts of the block.
UpdateAccounts ==
  {[NewEmptyStateAccount EXCEPT !.balance = b, !.root = r] :
     b \in 0..1, r \in {EmptyStorageRoot, GenesisAccount.root}}

UpdateStates == [Addrs -> {None} \cup {Some(a) : a \in UpdateAccounts}]

\* the state of the block: the parent state with the destructs and the
\* accounts of the block applied
blockState(parent, destructs, accounts) ==
  [k \in Addrs |-> IF IsSome(accounts[k]) THEN accounts[k]
                   ELSE IF k \in destructs THEN None ELSE parent[k]]

slimState(state) ==
  [k \in Addrs |-> IF IsSome(state[k]) THEN Some(SlimAccountRLP(Get(state[k]))) ELSE None]

updateInput(parent, snapKind, trieKind, onParent, destructs, accounts) ==
  [parent |-> parent,
   blockRoot |-> HashTrie(blockState(parent, destructs, accounts)),
   parentRoot |-> HashTrie(parent),
   snap |-> [kind |-> snapKind,
             accounts |-> IF snapKind = "layer" THEN slimState(parent)
                          ELSE [a \in Addrs |-> None]],
   trie |-> trieHandle(trieKind, IF onParent THEN parent
                                 ELSE blockState(parent, destructs, accounts)),
   destructs |-> destructs,
   accounts |-> slimState(accounts),
   storages |-> [a \in Addrs |-> None],
   codeUpdates |-> {}]

InitUpdate ==
  /\ db = GenesisDB("path")
  /\ snaps = GenesisSnaps(TRUE)
  /\ mvHashmap = EmptyMVHashMap
  /\ sdb = [m \in Mgrs |-> New(GenesisRoot)]
  /\ hist = InitHist
  /\ \E parent \in UpdateStates, accounts \in UpdateStates :
       \E snapKind \in {"layer", "plugin"}, trieKind \in {"unsupported", "committed", "open"} :
         \E destructs \in SUBSET Addrs, onParent \in BOOLEAN :
           /\ trieKind # "open" => ~onParent
           /\ ret = [op |-> "update",
                     in |-> updateInput(parent, snapKind, trieKind, onParent,
                                        destructs, accounts)]

CallPluginStateUpdate(modules) ==
  /\ ret.op = "update"
  /\ ret' = [op |-> "StateUpdate", in |-> ret.in, modules |-> modules,
             panic |-> updatePanics([snap |-> ret.in.snap, trie |-> ret.in.trie], ret.in),
             deliveries |-> pluginStateUpdate(ret.in, modules)]
  /\ UNCHANGED <<sdb, mvHashmap, db, snaps, hist>>

NextUpdate == \E modules \in 0..MaxModules : CallPluginStateUpdate(modules)

SpecUpdate == InitUpdate /\ [][NextUpdate]_vars

\* the snapshot cannot tell for the destruct of k, or for the account k
destructLeftToTrie(in, k) == k \in in.destructs /\ AccountRLP(in.snap, k).err
accountLeftToTrie(in, k) ==
  IsSome(in.accounts[k]) /\ (AccountRLP(in.snap, k).err \/ AccountRLP(in.snap, k).acct = None)
readsTrie(in) == \E k \in Addrs : destructLeftToTrie(in, k) \/ accountLeftToTrie(in, k)

\* C32 as stated: a state update whose checks have to read a trie of a type
\* without lookup by account hash aborts, and no listener is notified.
C32_UnsupportedTrieAborts ==
  (ret.op = "StateUpdate" /\ ret.in.trie.kind = "unsupported" /\ readsTrie(ret.in))
     => ret.panic /\ ret.deliveries = <<>>

\* C32 as the code has it: a check that has to read a trie of a type
\* without lookup by account hash answers true (the account existed, had
\* storage, was updated), so the destruct or the account goes out as it
\* came in, nothing aborts and every listener is notified.
C32_UnsupportedTrieAnswersTrue ==
  (ret.op = "StateUpdate" /\ ret.in.trie.kind = "unsupported")
     => /\ ~ret.panic
        /\ Len(ret.deliveries) = ret.modules
        /\ \A l \in 1..ret.modules : \A k \in Addrs :
             /\ destructLeftToTrie(ret.in, k) => k \in ret.deliveries[l].destructs
             /\ accountLeftToTrie(ret.in, k)
                  => ret.deliveries[l].accounts[k] = ret.in.accounts[k]

\* C32 witness: listeners notified of a destruct and an account that only
\* a trie of an unsupported type could have been asked about
C32_Witness ==
  /\ ret.op = "StateUpdate"
  /\ ret.in.trie.kind = "unsupported"
  /\ ret.modules > 0
  /\ \E k \in Addrs : destructLeftToTrie(ret.in, k) /\ ~IsSome(ret.in.parent[k])
  /\ \E k \in Addrs : accountLeftToTrie(ret.in, k)
  /\ Len(ret.deliveries) = ret.modules

\* the destruct of k is due: the account is re-created in the block and
\* had storage at the parent state, or is not and existed there
destructDue(in, k) ==
  /\ k \in in.destructs
  /\ IF IsSome(in.accounts[k])
     THEN IsSome(in.parent[k]) /\ Get(in.parent[k]).root # EmptyStorageRoot
     ELSE IsSome(in.parent[k])

\* the account k of the block differs from its encoding at the parent state
accountDue(in, k) == IsSome(in.accounts[k]) /\ in.accounts[k] # slimState(in.parent)[k]

\* the handles Commit passes: its snapshot handle, and its account trie
\* after the trie was committed
asCommitPasses(in) == in.trie.kind = "committed"

\* C36: the destruct set forwarded to the listeners holds k exactly when
\* the destruct of k is due against the parent state, the forwarded account
\* map holds (k, v) exactly when v differs from the encoding at the parent
\* state, and the storage and the code go out as they came in.
C36_ForwardedAgainstParentState ==
  (ret.op = "StateUpdate" /\ asCommitPasses(ret.in)) =>
    /\ Len(ret.deliveries) = ret.modules
    /\ \A l \in 1..Len(ret.deliveries) :
         /\ ret.deliveries[l].destructs = {k \in Addrs : destructDue(ret.in, k)}
         /\ \A k \in Addrs :
              ret.deliveries[l].accounts[k]
                = IF accountDue(ret.in, k) THEN ret.in.accounts[k] ELSE None
         /\ ret.deliveries[l].storage = ret.in.storages
         /\ ret.deliveries[l].codeUpdates = ret.in.codeUpdates

\* C33: the copy Copy returns (here of a manager between two transactions)
\* carries the accounts and storages of the block, their original values
\* and the destruct markers of its source, so that a Commit of the copy
\* yields the root and the reverse diff a Commit of the source yields.
C33_CopyCommitsLikeItsSource ==
  (ret.op = "Copy" /\ sdb[ret.from].journal = <<>>) =>
    /\ sdb[ret.m].accounts = sdb[ret.from].accounts
    /\ sdb[ret.m].storages = sdb[ret.from].storages
    /\ sdb[ret.m].stateObjectsDestruct = sdb[ret.from].stateObjectsDestruct
    /\ sdb[ret.m].accountsOrigin = sdb[ret.from].accountsOrigin
    /\ sdb[ret.m].storagesOrigin = sdb[ret.from].storagesOrigin
    /\ Commit(sdb[ret.m], TRUE, <<"A", "B">>).root
         = Commit(sdb[ret.from], TRUE, <<"A", "B">>).root
    /\ Commit(sdb[ret.m], TRUE, <<"A", "B">>).origins
         = Commit(sdb[ret.from], TRUE, <<"A", "B">>).origins

\* ApplyMVWriteSet on receiver r with the full write list of writer w
CallApplyMVWriteSet(r, w, order) ==
  /\ hist.ops[r] = 0
  /\ sdb[w].mvOn
  /\ sdb[w].writeMap # NoWrites
  /\ sdb' = ApplyMVWriteSet(sdb, r, MVFullWriteList(sdb[w], w, order)).S
  /\ ret' = [op |-> "ApplyMVWriteSet", m |-> r, writer |-> w,
             writes |-> MVFullWriteList(sdb[w], w, order),
             panic |-> ApplyMVWriteSet(sdb, r, MVFullWriteList(sdb[w], w, order)).panic,
             managerBefore |-> sdb[r],
             mapBefore |-> mvHashmap,
             writerReads |-> reads(sdb, w),
             writerView |-> finaliseView(sdb[w]),
             writerDeleted |-> deletedView(sdb[w])]
  /\ hist' = noteMutation(hist, r, FALSE)
  /\ UNCHANGED <<mvHashmap, db, snaps>>

\* The first manager executes transaction 0 of a block over the
\* multi-version map; the second one, with or without the map, receives
\* its write set.
InitApply ==
  /\ db = GenesisDB("path")
  /\ snaps = GenesisSnaps(FALSE)
  /\ mvHashmap = EmptyMVHashMap
  /\ \E mv \in BOOLEAN :
       sdb = [m \in Mgrs |-> IF m = 1 \/ mv
                             THEN [NewWithMVHashmap(GenesisRoot) EXCEPT !.txIndex = m - 1]
                             ELSE New(GenesisRoot)]
  /\ ret = [op |-> "New"]
  /\ hist = InitHist

NextApply ==
  \/ ObsSetBalance(1, "A", MaxBal)
  \/ ObsSetNonce(1, "A", MaxNonce)
  \/ ObsSetState(1, "A", "k", 0)
  \/ ObsSetCode(1, "B", MaxCode)
  \/ ObsSelfDestruct(1, "A")
  \/ CallFinalise(1, TRUE, <<"A", "B">>)
  \/ CallFlushMVWriteSet(1)
  \/ \E order \in KeyOrders : CallApplyMVWriteSet(2, 1, order)

SpecApply == InitApply /\ [][NextApply]_vars

appliedPaths == {ret.writes[i].Path : i \in 1..Len(ret.writes)}

\* the receiver holds the writer's value for every slot, balance, nonce
\* and code key of the list
appliedValues ==
  \A k \in appliedPaths :
    /\ IsState(k) => reads(sdb, ret.m)[k.addr].state[k.slot]
                       = ret.writerReads[k.addr].state[k.slot]
    /\ (k.kind = "subpath" /\ k.sub = BalancePath)
         => reads(sdb, ret.m)[k.addr].balance = ret.writerReads[k.addr].balance
    /\ (k.kind = "subpath" /\ k.sub = NoncePath)
         => reads(sdb, ret.m)[k.addr].nonce = ret.writerReads[k.addr].nonce
    /\ (k.kind = "subpath" /\ k.sub = CodePath)
         => reads(sdb, ret.m)[k.addr].code = ret.writerReads[k.addr].code

\* a list of address keys alone leaves the receiver as it was
addressKeysSkipped ==
  (\A k \in appliedPaths : IsAddress(k)) => sdb[ret.m] = ret.managerBefore

selfDestructsOf(journal) ==
  {journalTrail(journal)[i] : i \in 1..Len(journal)} \cap ({"selfDestructChange"} \X Addrs)

InitMarkers ==
  /\ \E scheme \in {"path", "hash"}, big \in SUBSET {[root |-> GenesisRoot, addr |-> "A"]} :
       db = [GenesisDB(scheme) EXCEPT !.bulk = big]
  /\ snaps = GenesisSnaps(TRUE)
  /\ mvHashmap = EmptyMVHashMap
  /\ sdb = [m \in Mgrs |-> New(GenesisRoot)]
  /\ ret = [op |-> "New"]
  /\ hist = InitHist

NextMarkers ==
  \/ \E a \in Addrs : CallSelfDestruct(1, a)
  \/ \E a \in Addrs : CallAddBalance(1, a, 1)
  \/ \E v \in 0..MaxVal : CallSetState(1, "A", "k", v)
  \/ CallFinalise(1, TRUE, <<"A", "B">>)
  \/ \E del \in BOOLEAN, o \in Orders : CallCommit(1, del, o)

SpecMarkers == InitMarkers /\ [][NextMarkers]_vars

\* a Commit whose handleDestruction ran to its end
destructionDone == ret.op = "Commit" /\ ret.managerBefore.dbErr = "" /\ ~ret.destruction.err

\* the original slots of a storage root, as storagesOrigin holds them
originalSlots(origin, root) ==
  origin # None /\ \A k \in Slots : root[k] # 0 => Get(origin)[k] = Some(root[k])

\* cases (a) and (b), the account part of (c) and (d), and the hash scheme
markersWithoutStorage ==
  /\ db.scheme = "hash"
       => /\ ret.destruction.incomplete = {}
          /\ ret.destruction.accountsOrigin = ret.block.accountsOrigin
          /\ ret.destruction.storagesOrigin = ret.block.storagesOrigin
  /\ db.scheme # "hash"
       => \A a \in ret.block.destructs :
            IF Get(ret.destruction.markers[a]) = None
            THEN /\ ret.destruction.deletions[a] = None
                 /\ ret.destruction.storagesOrigin[a] = ret.block.storagesOrigin[a]
                 /\ ret.destruction.accountsOrigin[a]
                      = IF IsSome(ret.block.accounts[a]) THEN Some(None)
                        ELSE ret.block.accountsOrigin[a]
            ELSE ret.destruction.accountsOrigin[a]
                   = Some(Some(SlimAccountRLP(Get(Get(ret.destruction.markers[a])))))

\* the markers with a prior account that had storage
storageMarkers ==
  IF db.scheme = "hash" THEN {}
  ELSE {a \in ret.block.destructs :
          /\ Get(ret.destruction.markers[a]) # None
          /\ Get(Get(ret.destruction.markers[a])).root # EmptyStorageRoot}

\* C35 as stated: handleDestruction records nothing for a marker without a
\* prior account that was not re-created, the nil original for one that
\* was, and for a marker with a prior account its encoding in
\* accountsOrigin and, when it had storage, its original slots in
\* storagesOrigin, over whatever was tracked before; under the hash scheme
\* it records nothing and returns an empty incomplete set.
C35_OriginalSlotsAlwaysRecorded ==
  destructionDone =>
    /\ markersWithoutStorage
    /\ \A a \in storageMarkers :
         originalSlots(ret.destruction.storagesOrigin[a],
                       Get(Get(ret.destruction.markers[a])).root)

\* C35 as the code has it: the original slots are recorded when the
\* deletion of the storage ran to its end; when it was aborted for size
\* the address is returned as incomplete and storagesOrigin holds nothing
\* for it.
C35_OriginalSlotsUnlessAborted ==
  destructionDone =>
    /\ markersWithoutStorage
    /\ \A a \in storageMarkers :
         IF Get(ret.destruction.deletions[a]).aborted
         THEN a \in ret.destruction.incomplete /\ ret.destruction.storagesOrigin[a] = None
         ELSE /\ a \notin ret.destruction.incomplete
              /\ originalSlots(ret.destruction.storagesOrigin[a],
                               Get(Get(ret.destruction.markers[a])).root)

\* C35 witness: an account with storage was destructed and resurrected with
\* a slot, and the original account and the original slot replace what the
\* resurrection had tracked
C35_Witness ==
  /\ destructionDone
  /\ "A" \in storageMarkers
  /\ IsSome(ret.block.accounts["A"])
  /\ ret.block.accountsOrigin["A"] # None
  /\ ret.block.accountsOrigin["A"] # ret.destruction.accountsOrigin["A"]
  /\ ret.block.storagesOrigin["A"] # None
  /\ ret.block.storagesOrigin["A"] # ret.destruction.storagesOrigin["A"]
  /\ ret.destruction.storagesOrigin["A"] # None

\* ------------------------------------------------------------------------
\* Two managers made by New for transactions 0 and 1; a multi-version map
\* is attached to them in every way the code offers, the first one writes
\* and flushes, its cells are marked as estimates, and both read.
CallNewWithMVHashmap(m) ==
  /\ hist.ops[m] = 0
  /\ ~sdb[m].mvOn
  /\ sdb' = [sdb EXCEPT ![m] = [NewWithMVHashmap(GenesisRoot) EXCEPT !.txIndex = m - 1]]
  /\ ret' = [op |-> "NewWithMVHashmap", m |-> m]
  /\ UNCHANGED <<mvHashmap, db, snaps, hist>>

CallSetMVHashmap(m) ==
  /\ sdb' = [sdb EXCEPT ![m] = SetMVHashmap(@)]
  /\ ret' = [op |-> "SetMVHashmap", m |-> m]
  /\ UNCHANGED <<mvHashmap, db, snaps, hist>>

\* the map AddEmptyMVHashMap makes is the map of the model when that is
\* empty and no other manager holds it
CallAddEmptyMVHashMap(m) ==
  /\ mvHashmap = EmptyMVHashMap
  /\ \A o \in Mgrs \ {m} : ~sdb[o].mvOn
  /\ sdb' = [sdb EXCEPT ![m] = AddEmptyMVHashMap(@)]
  /\ ret' = [op |-> "AddEmptyMVHashMap", m |-> m]
  /\ UNCHANGED <<mvHashmap, db, snaps, hist>>

InitAttach ==
  /\ db = GenesisDB("path")
  /\ snaps = GenesisSnaps(FALSE)
  /\ mvHashmap = EmptyMVHashMap
  /\ sdb = [m \in Mgrs |-> [New(GenesisRoot) EXCEPT !.txIndex = m - 1]]
  /\ ret = [op |-> "New", m |-> 1]
  /\ hist = InitHist

NextAttach ==
  \/ \E m \in Mgrs : CallNewWithMVHashmap(m)
  \/ \E m \in Mgrs : CallSetMVHashmap(m)
  \/ \E m \in Mgrs : CallAddEmptyMVHashMap(m)
  \/ CallCopy(1, 2)
  \/ \E x \in {0, MaxBal} : CallSetBalance(1, "A", x)
  \/ CallFlushMVWriteSet(1)
  \/ CallMarkEstimate(0)
  \/ \E m \in Mgrs : CallGetBalance(m, "A")

SpecAttach == InitAttach /\ [][NextAttach]_vars

\* the manager was just made, or the map was just attached to it
freshManager ==
  ret.op \in {"New", "NewWithMVHashmap", "SetMVHashmap", "AddEmptyMVHashMap", "Copy"}

\* the read that was just made hit a dependency
hitDependency ==
  /\ ret.op = "GetBalance"
  /\ ret.panic
  /\ IsSome(ret.consulted)
  /\ Get(ret.consulted).res.status = MVReadResultDependency

\* C37: HadInvalidRead is false on a manager that New, NewWithMVHashmap,
\* SetMVHashmap, AddEmptyMVHashMap or Copy has just returned, and a read
\* of a manager without an invalid read leaves it true exactly when the
\* read hit a dependency.
C37_NoInvalidReadOnFreshManager ==
  /\ freshManager => ~HadInvalidRead(sdb[ret.m])
  /\ ret.op = "GetBalance" => (HadInvalidRead(sdb[ret.m]) <=> hitDependency)

\* ------------------------------------------------------------------------
\* Two managers for transactions 0 and 1, with and without the
\* multi-version map: both write, the first flushes, its cells are marked
\* as estimates, and both read.
PlainGetBalance(m, addr) ==
  /\ ~sdb[m].mvOn
  /\ getBalanceCall(m, addr, NewSubpathKey(addr, BalancePath), NewAddressKey(addr),
                    GetBalance(sdb, m, addr),
                    MVHashMapRead(NewSubpathKey(addr, BalancePath), sdb[m].txIndex))

NextOwn ==
  \/ \E m \in Mgrs : CallSetMVHashmap(m)
  \/ CallSetBalance(1, "A", 0)
  \/ CallSetBalance(2, "A", MaxBal)
  \/ CallFlushMVWriteSet(1)
  \/ CallMarkEstimate(0)
  \/ \E m \in Mgrs : CallGetBalance(m, "A")
  \/ \E m \in Mgrs : PlainGetBalance(m, "A")

SpecOwn == InitAttach /\ [][NextOwn]_vars

\* the read that was just made was of a key of the reader's own write set
ownRead == ret.op = "GetBalance" /\ sdb[ret.m].mvOn /\ IsSome(sdb[ret.m].writeMap[ret.key])

\* the read that was just made was made without a map
plainRead == ret.op = "GetBalance" /\ ~sdb[ret.m].mvOn

\* C38: a versioned read of a key of the manager's own write set returns
\* what the manager holds itself, never aborts on a dependency and adds
\* nothing to the read set; a read without a map returns what the manager
\* holds and records nothing.
C38_OwnWritesAreReadLocally ==
  /\ ownRead =>
       /\ ~ret.panic
       /\ ~HadInvalidRead(sdb[ret.m])
       /\ ret.val = ret.local
       /\ ret.val = held(sdb, ret.m, ret.addr)
       /\ sdb[ret.m].readMap = ret.readBefore
  /\ plainRead =>
       /\ ~ret.panic
       /\ ret.val = held(sdb, ret.m, ret.addr)
       /\ sdb[ret.m].readMap = NoReads
       /\ sdb[ret.m].writeMap = NoWrites

\* C38 witness: the second manager reads a balance it has written while
\* the map holds an estimate of the first one for it
C38_Witness ==
  /\ ownRead
  /\ ret.m = 2
  /\ ret.cell = MVReadResultDependency
  /\ ret.addrCell = MVReadResultDependency
  /\ ret.val = MaxBal
  /\ ret.val # ret.writerHolds
  /\ ~ret.panic

\* ------------------------------------------------------------------------
\* Updates of the freezer are tracked per block number and kind, and
\* committed to the registered modules up to a block number.
CallPluginTrackUpdate(num, kind, value) ==
  /\ Cardinality({i \in Nums : i = num \/ IsSome(db.freezerUpdates[i])}) <= MaxTracked
  /\ db' = [db EXCEPT !.freezerUpdates = PluginTrackUpdate(@, num, kind, value)]
  /\ ret' = [op |-> "PluginTrackUpdate", num |-> num, kind |-> kind, value |-> value,
             before |-> db.freezerUpdates]
  /\ UNCHANGED <<sdb, mvHashmap, snaps, hist>>

CallPluginCommitUpdate(num, modules) ==
  /\ db' = [db EXCEPT !.freezerUpdates = pluginCommitUpdate(@, num, modules).fu]
  /\ ret' = [op |-> "pluginCommitUpdate", num |-> num, modules |-> modules,
             before |-> db.freezerUpdates,
             deliveries |-> pluginCommitUpdate(db.freezerUpdates, num, modules).deliveries,
             warned |-> pluginCommitUpdate(db.freezerUpdates, num, modules).warned]
  /\ UNCHANGED <<sdb, mvHashmap, snaps, hist>>

NextFreezer ==
  \/ \E num \in Nums, kind \in Kinds, value \in 0..MaxVal :
       CallPluginTrackUpdate(num, kind, value)
  \/ \E num \in Nums, modules \in 0..MaxModules : CallPluginCommitUpdate(num, modules)

SpecFreezer == Init /\ [][NextFreezer]_vars

\* the tracked block numbers below num
trackedBelow(fu, num) == {i \in Nums : i < num /\ IsSome(fu[i])}

\* the calls of module l for block i among the deliveries
deliveredTo(deliveries, l, i) ==
  {j \in 1..Len(deliveries) : deliveries[j].module = l /\ deliveries[j].num = i}

\* C39: PluginTrackUpdate sets the value of a kind of a block and nothing
\* else, so an update holds the last value tracked per kind;
\* pluginCommitUpdate(num) calls every module exactly once for each tracked
\* block number below num, with its update, in ascending order of the block
\* numbers, and for no other block; afterwards nothing below num is
\* tracked and what is tracked from num on is as before; with nothing
\* tracked it makes no call.
C39_CommitDeliversTrackedBelowOnce ==
  /\ ret.op = "PluginTrackUpdate" =>
       \A i \in Nums, kind \in Kinds :
         IF i = ret.num /\ kind = ret.kind
         THEN Get(db.freezerUpdates[i])[kind] = Some(ret.value)
         ELSE (IF IsSome(db.freezerUpdates[i]) THEN Get(db.freezerUpdates[i])[kind] ELSE None)
                = (IF IsSome(ret.before[i]) THEN Get(ret.before[i])[kind] ELSE None)
  /\ ret.op = "pluginCommitUpdate" =>
       /\ \A l \in 1..ret.modules : \A i \in Nums :
            IF i \in trackedBelow(ret.before, ret.num)
            THEN /\ Cardinality(deliveredTo(ret.deliveries, l, i)) = 1
                 /\ \A j \in deliveredTo(ret.deliveries, l, i) :
                      ret.deliveries[j].update = Get(ret.before[i])
            ELSE deliveredTo(ret.deliveries, l, i) = {}
       /\ Len(ret.deliveries) = ret.modules * Cardinality(trackedBelow(ret.before, ret.num))
       /\ \A j \in 1..Len(ret.deliveries) : \A h \in 1..Len(ret.deliveries) :
            j < h => ret.deliveries[j].num <= ret.deliveries[h].num
       /\ \A i \in Nums :
            db.freezerUpdates[i] = IF i < ret.num THEN None ELSE ret.before[i]
       /\ (\A i \in Nums : ret.before[i] = None) => ret.deliveries = <<>>

\* C39 witness: two modules were called for two tracked blocks with an
\* untracked one between them, and a block from num on stays tracked
C39_Witness ==
  /\ ret.op = "pluginCommitUpdate"
  /\ ret.modules = 2
  /\ Cardinality(trackedBelow(ret.before, ret.num)) = 2
  /\ Len(ret.deliveries) = 4
  /\ ret.warned # {}
  /\ \E i \in Nums : i >= ret.num /\ IsSome(db.freezerUpdates[i])
  /\ \E j \in 1..Len(ret.deliveries) :
       \A kind \in Kinds : IsSome(ret.deliveries[j].update[kind])

\* ------------------------------------------------------------------------
\* Two managers execute transactions 0 and 1 of a block over one
\* multi-version map; the second one writes, reads, has writes marked as
\* reverted, and its read and write sets are listed and dumped.
listCall(m, name, val) ==
  /\ sdb[m].mvOn
  /\ ret' = [op |-> name, m |-> m, val |-> val]
  /\ UNCHANGED <<sdb, mvHashmap, db, snaps, hist>>

CallGetReadMapDump(m, order) == listCall(m, "GetReadMapDump", GetReadMapDump(sdb[m], order))
CallGetWriteMapDump(m, order) == listCall(m, "GetWriteMapDump", GetWriteMapDump(sdb[m], order))
CallMVWriteList(m, order) == listCall(m, "MVWriteList", MVWriteList(sdb[m], m, order))
CallMVFullWriteList(m, order) ==
  listCall(m, "MVFullWriteList", MVFullWriteList(sdb[m], m, order))

CallRevertWrite(m, k) ==
  /\ k \notin sdb[m].revertedKeys
  /\ sdb' = [sdb EXCEPT ![m] = RevertWrite(@, k)]
  /\ ret' = [op |-> "RevertWrite", m |-> m, key |-> k]
  /\ UNCHANGED <<mvHashmap, db, snaps, hist>>

NextDump ==
  \/ CallSetBalance(1, "A", 0)
  \/ CallFlushMVWriteSet(1)
  \/ CallSetBalance(2, "A", MaxBal)
  \/ CallSetNonce(2, "B", MaxNonce)
  \/ \E a \in Addrs : CallGetBalance(2, a)
  \/ \E k \in {NewSubpathKey("A", BalancePath), NewAddressKey("B")} : CallRevertWrite(2, k)
  \/ \E order \in KeyOrders : CallGetReadMapDump(2, order)
  \/ \E order \in KeyOrders : CallGetWriteMapDump(2, order)
  \/ \E order \in KeyOrders : CallMVWriteList(2, order)
  \/ \E order \in KeyOrders : CallMVFullWriteList(2, order)

SpecDump == InitMV /\ [][NextDump]_vars

\* the list holds exactly one entry for every key of keys and no other
onePerKey(list, keys) ==
  /\ Len(list) = Cardinality(keys)
  /\ {list[i].Path : i \in 1..Len(list)} = keys

writtenKeys(s) == {k \in AllKeys : IsSome(s.writeMap[k])}
readKeys(s) == {k \in AllKeys : IsSome(s.readMap[k])}

\* C40: GetWriteMapDump returns one entry per key of the write set, with
\* the path and the version that wrote, tagged as a write; GetReadMapDump
\* one entry per key of the read set, with the version read; MVWriteList
\* the descriptors of the write set whose key RevertWrite has not marked,
\* MVFullWriteList all of them.
C40_DumpsAndListsCoverTheirSets ==
  /\ ret.op = "GetWriteMapDump" =>
       /\ onePerKey(ret.val, writtenKeys(sdb[ret.m]))
       /\ \A i \in 1..Len(ret.val) :
            /\ ret.val[i].Op = "Write\n"
            /\ IsSome(sdb[ret.m].writeMap[ret.val[i].Path])
            /\ ret.val[i].VerIdx = Get(sdb[ret.m].writeMap[ret.val[i].Path]).V.TxnIndex
            /\ ret.val[i].VerInc = Get(sdb[ret.m].writeMap[ret.val[i].Path]).V.Incarnation
  /\ ret.op = "GetReadMapDump" =>
       /\ onePerKey(ret.val, readKeys(sdb[ret.m]))
       /\ \A i \in 1..Len(ret.val) :
            /\ ret.val[i].Op = "Read\n"
            /\ ret.val[i].VerIdx = Get(sdb[ret.m].readMap[ret.val[i].Path]).V.TxnIndex
            /\ ret.val[i].VerInc = Get(sdb[ret.m].readMap[ret.val[i].Path]).V.Incarnation
  /\ ret.op = "MVWriteList" =>
       /\ onePerKey(ret.val, writtenKeys(sdb[ret.m]) \ sdb[ret.m].revertedKeys)
       /\ \A i \in 1..Len(ret.val) :
            ret.val[i] = writeDescriptor(sdb[ret.m], ret.m, ret.val[i].Path)
  /\ ret.op = "MVFullWriteList" =>
       /\ onePerKey(ret.val, writtenKeys(sdb[ret.m]))
       /\ \A i \in 1..Len(ret.val) :
            ret.val[i] = writeDescriptor(sdb[ret.m], ret.m, ret.val[i].Path)

====
